---------------------------- MODULE Spec2Model ----------------------------
(***************************************************************************)
(* A model of the retrieval-augmented generation pipeline of OAI_BOT_V.1:  *)
(* the chunker of core/document_processor.py, the embedding loop of        *)
(* core/ai_service.py, the vector store adapter of core/qdrant_service.py  *)
(* and the context, prompt and source bookkeeping of core/rag_engine.py.   *)
(*                                                                         *)
(* Texts are sequences of one-character strings.  Each component has its   *)
(* own specification (SpecChunker, SpecEmbed, SpecSearch, ...); the      *)
(* variables of the other components stay at their idle values.            *)
(***************************************************************************)
EXTENDS Integers, Sequences, FiniteSets, TLC

(***************************************************************************)
(* Bounds of the model.                                                    *)
(***************************************************************************)
\* longest document text handed to the chunker
MaxTextLen == 7
\* largest settings.chunk_size tried
MaxChunkSize == 3
\* largest settings.chunk_overlap tried (may exceed chunk_size)
MaxOverlap == 4
\* longest list of texts handed to generate_embeddings
MaxTexts == 3
\* most points in the collection
MaxPoints == 3
\* similarity scores and thresholds are 0..MaxScore (tenths, scaled)
MaxScore == 2
\* largest limit a caller of search_similar asks for
MaxLimit == 2
\* longest list of hits handed to _extract_sources_info
MaxSourceHits == 3
\* longest list of hits handed to _build_context_from_chunks
MaxContextHits == 3
\* the chunks of a small ingested document
MaxChunks == 2
\* the longest message history handed to chat_with_context
MaxHistory == 2
\* the messages stamped by the clock in a run of the chat sessions
MaxMessages == 22
\* the adapter instances constructed at once
MaxAdapters == 2
\* the files saved by upload requests
MaxUploads == 2
\* the POST /message requests in flight together
MaxRequests == 2

(***************************************************************************)
(* Characters and Python string helpers.                                   *)
(***************************************************************************)
LF == "\n"
SP == " "
\* the characters document texts are drawn from
Chars == {"a", "b", LF}
\* what str.strip() removes (of the characters modelled)
Whitespace == {LF, SP}
\* the paragraph separator, "\n\n"
SEP == <<LF, LF>>

RECURSIVE LStrip(_)
LStrip(s) ==
    IF s # <<>> /\ Head(s) \in Whitespace THEN LStrip(Tail(s)) ELSE s

RECURSIVE RStrip(_)
RStrip(s) ==
    IF s # <<>> /\ s[Len(s)] \in Whitespace
    THEN RStrip(SubSeq(s, 1, Len(s) - 1))
    ELSE s

\* str.strip()
Strip(s) == RStrip(LStrip(s))

\* s[-n:] for n > 0: the last n characters, the whole of s when it is shorter
LastChars(s, n) ==
    IF n >= Len(s) THEN s ELSE SubSeq(s, Len(s) - n + 1, Len(s))

\* the least index at which "\n\n" starts in s, 0 when there is none
FirstSep(s) ==
    LET at == {i \in 1..(Len(s) - 1) : s[i] = LF /\ s[i + 1] = LF}
    IN  IF at = {} THEN 0 ELSE CHOOSE i \in at : \A j \in at : i <= j

\* text.split('\n\n'): left to right, separators do not overlap
RECURSIVE SplitParagraphs(_)
SplitParagraphs(s) ==
    LET i == FirstSep(s)
    IN  IF i = 0
        THEN <<s>>
        ELSE <<SubSeq(s, 1, i - 1)>> \o SplitParagraphs(SubSeq(s, i + 2, Len(s)))

\* all texts over Chars of length at most n
RECURSIVE TextsUpTo(_)
TextsUpTo(n) ==
    IF n = 0
    THEN {<<>>}
    ELSE LET shorter == TextsUpTo(n - 1)
         IN  shorter \cup {Append(t, c) : t \in {u \in shorter : Len(u) = n - 1}, c \in Chars}

(***************************************************************************)
(* State.                                                                  *)
(***************************************************************************)
VARIABLES
    \* DocumentProcessor._split_text_into_chunks
    text,           \* the argument
    chunk_size,     \* settings.chunk_size
    overlap,        \* settings.chunk_overlap
    paragraphs,     \* text.split('\n\n')
    para_i,         \* position of the for loop in paragraphs (1-based)
    current_chunk,  \* the running buffer
    chunk_index,    \* the running index
    chunks,         \* the list returned
    own_len,        \* history: per emitted chunk, the length of the buffer
                    \* that is not overlap seed (seed and its separator excluded)
    seed_len,       \* history: length of the overlap seed, with its separator,
                    \* at the front of current_chunk
    split_pc,       \* "start", "loop", "done"
    \* AIService.generate_embeddings
    emb_texts,      \* the argument: the texts to embed
    all_embeddings, \* the list built by the loop
    emb_calls,      \* history: the provider calls issued, each with its response
    emb_result,     \* the dict returned (NoResult while running)
    emb_pc,         \* "loop", "done"
    \* QdrantService
    client,         \* self.client: "connected", or "none" in degraded mode
    points,         \* the points of the collection in the backing store
    srch_args,      \* history: the arguments of the last search_similar call
    srch_scores,    \* history: the similarity of each point to its query vector
    srch_result,    \* the dict the last search_similar call returned
    \* RAGEngine._extract_sources_info
    src_chunks,     \* the argument: a list of hits
    sources,        \* the list returned
    src_pc,         \* "start", "done"
    \* RAGEngine._build_context_from_chunks, _build_enhanced_system_prompt
    ctx_chunks,     \* the hits the context is built from
    base_prompt,    \* the base system prompt
    query,          \* the query text
    context_text,   \* the context built
    enhanced_prompt,\* the prompt built
    ctx_pc,         \* "start", "context", "prompt"
    \* the backing store behind QdrantService, and the controller's calls
    store_up,       \* whether the backing store answers requests
    coll_exists,    \* whether the collection exists in the backing store
    rag_op,         \* the last operation called, with its arguments
    rag_result,     \* what it returned
    rag_calls,      \* the remote calls it issued, in order
    ingested,       \* history: per document_id, the chunks of its successful ingest
    deleted,        \* history: the document_ids deleted with success
    store_at_init,  \* history: "up" or "down", the store when the adapter was constructed
    \* api/chat.py
    chat_sessions,  \* the module's dict: session_id -> messages and created_at
    now,            \* the clock datetime.now() reads
    chat_response,  \* the response of the last request
    appended,       \* history: per session_id, the messages appended since
                    \* the session was created, in order
    \* QdrantService.__init__ of several adapter instances at once
    adapters,       \* per instance: its position, its client, what its check
                    \* saw and how its create_collection ended
    created,        \* history: the create_collection calls the store carried out
    \* api/documents.py: upload_document
    temp_files,     \* the files in settings.upload_folder
    saved,          \* history: the number of files save_uploaded_file has written
    upload_response,\* the response of the last upload request
    \* api/chat.py with its handlers suspended at their await
    session_objs,   \* the session dicts created so far, by identity
    session_refs,   \* chat_sessions as references: session_id -> identity
    handlers        \* per request: its position, its local variables, its response

chunkerVars ==
    <<text, chunk_size, overlap, paragraphs, para_i, current_chunk,
      chunk_index, chunks, own_len, seed_len, split_pc>>
embedVars == <<emb_texts, all_embeddings, emb_calls, emb_result, emb_pc>>
searchVars == <<client, points, srch_args, srch_scores, srch_result>>
sourcesVars == <<src_chunks, sources, src_pc>>
promptVars == <<ctx_chunks, base_prompt, query, context_text, enhanced_prompt, ctx_pc>>
ragVars ==
    <<store_up, coll_exists, rag_op, rag_result, rag_calls, ingested, deleted,
      store_at_init>>
sessionVars == <<chat_sessions, now, chat_response, appended>>
ensureVars == <<adapters, created>>
uploadVars == <<temp_files, saved, upload_response>>
flightVars == <<session_objs, session_refs, handlers>>
vars ==
    <<chunkerVars, embedVars, searchVars, sourcesVars, promptVars, ragVars,
      sessionVars, ensureVars, uploadVars, flightVars>>

\* what each component leaves alone
notChunker ==
    <<embedVars, searchVars, sourcesVars, promptVars, ragVars, sessionVars,
      ensureVars, uploadVars, flightVars>>
notEmbed ==
    <<chunkerVars, searchVars, sourcesVars, promptVars, ragVars, sessionVars,
      ensureVars, uploadVars, flightVars>>
notSearch ==
    <<chunkerVars, embedVars, sourcesVars, promptVars, ragVars, sessionVars,
      ensureVars, uploadVars, flightVars>>
notSources ==
    <<chunkerVars, embedVars, searchVars, promptVars, ragVars, sessionVars,
      ensureVars, uploadVars, flightVars>>
notPrompt ==
    <<chunkerVars, embedVars, searchVars, sourcesVars, ragVars, sessionVars,
      ensureVars, uploadVars, flightVars>>
notQuery ==
    <<chunkerVars, embedVars, srch_args, srch_scores, srch_result, sourcesVars,
      promptVars, sessionVars, ensureVars, uploadVars, flightVars>>
notStore ==
    <<chunkerVars, embedVars, srch_args, srch_scores, srch_result, sourcesVars,
      promptVars, sessionVars, ensureVars, uploadVars, flightVars>>
notSession ==
    <<chunkerVars, embedVars, searchVars, sourcesVars, promptVars, ragVars,
      ensureVars, uploadVars, flightVars>>

(***************************************************************************)
(* DocumentProcessor._split_text_into_chunks                               *)
(***************************************************************************)
\* texts of three paragraphs whose first holds a run of blanks, as the
\* indented lines of an extracted document do
IndentedTexts ==
    {<<"a">> \o [i \in 1..k |-> SP] \o <<"b">> \o SEP \o <<"a">> \o SEP \o <<"b">> :
        k \in 1..MaxOverlap}

\* the dict appended to chunks (lines 241-245 and 263-267)
ChunkDict(buffer, index) ==
    [text |-> Strip(buffer),
     chunk_index |-> index,
     character_count |-> Len(Strip(buffer))]

\* a faulty variant of ExceedsChunkSize: the "and current_chunk" guard is forgotten
ExceedsChunkSizeNoGuard(buffer, paragraph, size) ==
    Len(buffer) + Len(paragraph) > size

\* line 240: adding this paragraph exceeds the chunk size and the buffer is not empty
ExceedsChunkSize(buffer, paragraph, size) ==
    Len(buffer) + Len(paragraph) > size /\ buffer # <<>>

\* a faulty variant of SeedsOverlap: the length of the buffer is not looked at
SeedsOverlapAlways(buffer, ov) == ov > 0

\* line 248: the sealed buffer seeds the next one
SeedsOverlap(buffer, ov) == ov > 0 /\ Len(buffer) > ov

\* lines 248-251: the buffer that follows a sealed one
BufferAfterSeal(buffer, paragraph, ov) ==
    IF SeedsOverlap(buffer, ov)
    THEN LastChars(buffer, ov) \o SEP \o paragraph
    ELSE paragraph

\* a faulty variant of NextChunkIndex: the increment is forgotten
NextChunkIndexStuck(index) == index

\* line 253: the index of the next chunk
NextChunkIndex(index) == index + 1

\* a faulty variant of BufferAfterAppend: "=" written for "+=", the buffer is overwritten
BufferAfterAppendOverwrites(buffer, paragraph) == paragraph

\* lines 256-259: the paragraph joins the buffer
BufferAfterAppend(buffer, paragraph) ==
    IF buffer # <<>> THEN buffer \o SEP \o paragraph ELSE paragraph

\* lines 222-223: an empty text returns []
SplitEmpty ==
    /\ UNCHANGED notChunker
    /\ split_pc = "start"
    /\ text = <<>>
    /\ split_pc' = "done"
    /\ UNCHANGED <<text, chunk_size, overlap, paragraphs, para_i, current_chunk,
                   chunk_index, chunks, own_len, seed_len>>

\* lines 225-232
SplitStart ==
    /\ UNCHANGED notChunker
    /\ split_pc = "start"
    /\ text # <<>>
    /\ paragraphs' = SplitParagraphs(text)
    /\ para_i' = 1
    /\ current_chunk' = <<>>
    /\ chunk_index' = 0
    /\ chunks' = <<>>
    /\ split_pc' = "loop"
    /\ UNCHANGED <<text, chunk_size, overlap, own_len, seed_len>>

\* lines 235-237: a blank paragraph is skipped
SplitSkipBlank ==
    /\ UNCHANGED notChunker
    /\ split_pc = "loop"
    /\ para_i <= Len(paragraphs)
    /\ Strip(paragraphs[para_i]) = <<>>
    /\ para_i' = para_i + 1
    /\ UNCHANGED <<text, chunk_size, overlap, paragraphs, current_chunk,
                   chunk_index, chunks, own_len, seed_len, split_pc>>

\* lines 240-253: the buffer is sealed and the next one started
SplitSeal ==
    /\ UNCHANGED notChunker
    /\ split_pc = "loop"
    /\ para_i <= Len(paragraphs)
    /\ LET paragraph == Strip(paragraphs[para_i])
       IN  /\ paragraph # <<>>
           /\ ExceedsChunkSize(current_chunk, paragraph, chunk_size)
           /\ chunks' = Append(chunks, ChunkDict(current_chunk, chunk_index))
           /\ own_len' = Append(own_len, Len(current_chunk) - seed_len)
           /\ current_chunk' = BufferAfterSeal(current_chunk, paragraph, overlap)
           /\ seed_len' = IF SeedsOverlap(current_chunk, overlap)
                          THEN overlap + Len(SEP)
                          ELSE 0
           /\ chunk_index' = NextChunkIndex(chunk_index)
    /\ para_i' = para_i + 1
    /\ UNCHANGED <<text, chunk_size, overlap, paragraphs, split_pc>>

\* lines 254-259: the paragraph is added to the buffer
SplitAppend ==
    /\ UNCHANGED notChunker
    /\ split_pc = "loop"
    /\ para_i <= Len(paragraphs)
    /\ LET paragraph == Strip(paragraphs[para_i])
       IN  /\ paragraph # <<>>
           /\ ~ExceedsChunkSize(current_chunk, paragraph, chunk_size)
           /\ current_chunk' = BufferAfterAppend(current_chunk, paragraph)
    /\ para_i' = para_i + 1
    /\ UNCHANGED <<text, chunk_size, overlap, paragraphs, chunk_index, chunks,
                   own_len, seed_len, split_pc>>

\* lines 261-278: the last buffer, the short-text fallback, the return
SplitFinish ==
    /\ UNCHANGED notChunker
    /\ split_pc = "loop"
    /\ para_i > Len(paragraphs)
    /\ LET withLast ==
               IF Strip(current_chunk) # <<>>
               THEN Append(chunks, ChunkDict(current_chunk, chunk_index))
               ELSE chunks
           ownLast ==
               IF Strip(current_chunk) # <<>>
               THEN Append(own_len, Len(current_chunk) - seed_len)
               ELSE own_len
       IN  IF withLast = <<>> /\ Strip(text) # <<>>
           THEN /\ chunks' = <<[text |-> Strip(text),
                                chunk_index |-> 0,
                                character_count |-> Len(Strip(text))]>>
                /\ own_len' = <<Len(Strip(text))>>
           ELSE /\ chunks' = withLast
                /\ own_len' = ownLast
    /\ split_pc' = "done"
    /\ UNCHANGED <<text, chunk_size, overlap, paragraphs, para_i, current_chunk,
                   chunk_index, seed_len>>

ChunkerNext ==
    \/ SplitEmpty
    \/ SplitStart
    \/ SplitSkipBlank
    \/ SplitSeal
    \/ SplitAppend
    \/ SplitFinish

(***************************************************************************)
(* AIService.generate_embeddings                                           *)
(***************************************************************************)
NoResult == [pending |-> TRUE]

\* the status of a successful provider response (line 195)
HTTP_OK == 200
\* the statuses the provider answers a failed request with
ErrorStatuses == {500, 503}

\* settings.embedding_model
EmbeddingModel == "embedding-model"

\* the texts handed to the embedding provider
EmbedInputs == {"t1", "t2"}
\* the vectors the provider may answer with
Vectors == {<<1>>, <<2>>}

\* what client.post may return: 200 with an embedding, 200 without the
\* "embedding" key, or an error status
ProviderResponses ==
    {[status_code |-> HTTP_OK, embedding |-> v] : v \in Vectors}
        \cup {[status_code |-> HTTP_OK]}
        \cup {[status_code |-> st] : st \in ErrorStatuses}
\* what client.post may raise
ProviderExceptions == {"timeout"}

RECURSIVE SeqsUpTo(_, _)
SeqsUpTo(S, n) ==
    IF n = 0
    THEN {<<>>}
    ELSE LET shorter == SeqsUpTo(S, n - 1)
         IN  shorter \cup {Append(t, x) : t \in {u \in shorter : Len(u) = n - 1}, x \in S}

\* line 197: result.get("embedding", [])
ResponseEmbedding(response) ==
    IF "embedding" \in DOMAIN response THEN response.embedding ELSE <<>>

\* a faulty variant of CollectEmbedding: the new vector is put in front
CollectEmbeddingInFront(embeddings, embedding) == <<embedding>> \o embeddings

\* line 198: all_embeddings.append(embedding)
CollectEmbedding(embeddings, embedding) == Append(embeddings, embedding)

\* a faulty variant of AfterErrorStatus: the failed text is skipped and the
\* loop goes on
AfterErrorStatusSkips(status) == [pc |-> "loop", result |-> NoResult]

\* lines 199-204: an error status ends the operation with a failure
AfterErrorStatus(status) ==
    [pc |-> "done",
     result |-> [success |-> FALSE, error |-> <<"Embedding API Error: ", status>>]]

\* lines 206-211
EmbeddingsSuccess(embeddings) ==
    [success |-> TRUE,
     embeddings |-> embeddings,
     count |-> Len(embeddings),
     model |-> EmbeddingModel]

\* the text the loop is at: one provider call per text, in order
EmbedCurrent == emb_texts[Len(emb_calls) + 1]

\* lines 183-198: the provider answers 200 and the vector is collected
EmbedCallOk ==
    /\ UNCHANGED notEmbed
    /\ emb_pc = "loop"
    /\ Len(emb_calls) < Len(emb_texts)
    /\ \E response \in ProviderResponses :
           /\ response.status_code = HTTP_OK
           /\ emb_calls' = Append(emb_calls, [prompt |-> EmbedCurrent, response |-> response])
           /\ all_embeddings' = CollectEmbedding(all_embeddings, ResponseEmbedding(response))
    /\ UNCHANGED <<emb_texts, emb_result, emb_pc>>

\* lines 183-204: the provider answers with an error status
EmbedCallErrorStatus ==
    /\ UNCHANGED notEmbed
    /\ emb_pc = "loop"
    /\ Len(emb_calls) < Len(emb_texts)
    /\ \E response \in ProviderResponses :
           /\ response.status_code # HTTP_OK
           /\ emb_calls' = Append(emb_calls, [prompt |-> EmbedCurrent, response |-> response])
           /\ emb_pc' = AfterErrorStatus(response.status_code).pc
           /\ emb_result' = AfterErrorStatus(response.status_code).result
    /\ UNCHANGED <<emb_texts, all_embeddings>>

\* lines 189-193 and 213-218: the provider call raises
EmbedCallRaises ==
    /\ UNCHANGED notEmbed
    /\ emb_pc = "loop"
    /\ Len(emb_calls) < Len(emb_texts)
    /\ \E e \in ProviderExceptions :
           /\ emb_calls' = Append(emb_calls, [prompt |-> EmbedCurrent, raised |-> e])
           /\ emb_result' = [success |-> FALSE, error |-> <<e>>]
    /\ emb_pc' = "done"
    /\ UNCHANGED <<emb_texts, all_embeddings>>

\* lines 206-211: every text was embedded
EmbedReturn ==
    /\ UNCHANGED notEmbed
    /\ emb_pc = "loop"
    /\ Len(emb_calls) >= Len(emb_texts)
    /\ emb_result' = EmbeddingsSuccess(all_embeddings)
    /\ emb_pc' = "done"
    /\ UNCHANGED <<emb_texts, all_embeddings, emb_calls>>

EmbedNext ==
    \/ EmbedCallOk
    \/ EmbedCallErrorStatus
    \/ EmbedCallRaises
    \/ EmbedReturn

(***************************************************************************)
(* QdrantService.search_similar and the backing store's search             *)
(***************************************************************************)
DocIds == {"d1", "d2"}
NoFilter == [none |-> TRUE]
\* filter_conditions: None, or an equality on the payload's document_id
FilterConditions == {NoFilter} \cup {[document_id |-> d] : d \in DocIds}
Scores == 0..MaxScore
\* max_chunks of _retrieve_relevant_context
MaxChunksDefault == 3

\* the payload add_documents stores for chunk i of document d
PayloadOf(d, i) ==
    [text |-> <<"x">>, document_id |-> d, filename |-> <<"file-", d>>, chunk_index |-> i]

\* the collections the store may hold: point ids 1..n, any document each
StoreContents ==
    UNION {{{[id |-> i, payload |-> PayloadOf(doc[i], i - 1)] : i \in 1..n} :
               doc \in [1..n -> DocIds]} : n \in 0..MaxPoints}

\* Filter(must=[FieldCondition(key, Match(value))]) applied to a point
MatchesFilter(point, query_filter) ==
    \/ query_filter = NoFilter
    \/ /\ query_filter # NoFilter
       /\ point.payload.document_id = query_filter.document_id

Min(a, b) == IF a <= b THEN a ELSE b

\* the backing store's search: the points that pass the filter and reach the
\* score threshold, ranked by descending score, cut to the limit; the order
\* among equal scores is the store's choice
ClientSearch(pts, scores, request) ==
    LET eligible == {pt \in pts :
                        /\ MatchesFilter(pt, request.query_filter)
                        /\ scores[pt.id] >= request.score_threshold}
        n == Min(request.limit, Cardinality(eligible))
    IN  {hits \in [1..n -> eligible] :
            /\ \A i, j \in 1..n : i < j =>
                   /\ hits[i] # hits[j]
                   /\ scores[hits[i].id] >= scores[hits[j].id]
            /\ \A pt \in eligible :
                   (\A i \in 1..n : hits[i] # pt) =>
                       \A i \in 1..n : scores[hits[i].id] >= scores[pt.id]}

\* a faulty variant of SearchRequest: score_threshold is not handed on
SearchRequestNoThreshold(limit, score_threshold, filter_conditions) ==
    [limit |-> limit, score_threshold |-> 0, query_filter |-> filter_conditions]

\* lines 135-153: the arguments handed to client.search
SearchRequest(limit, score_threshold, filter_conditions) ==
    [limit |-> limit,
     score_threshold |-> score_threshold,
     query_filter |-> filter_conditions]

\* lines 156-166: the hits as result dicts, in the order the store gave them
FormatResults(hits, scores) ==
    [i \in 1..Len(hits) |->
        [id |-> hits[i].id,
         score |-> scores[hits[i].id],
         text |-> hits[i].payload.text,
         metadata |-> [document_id |-> hits[i].payload.document_id,
                       filename |-> hits[i].payload.filename,
                       chunk_index |-> hits[i].payload.chunk_index]]]

ClientUnavailable == [success |-> FALSE, error |-> "Qdrant client not available"]

\* what the client may raise
StoreExceptions == {"connection refused"}

\* the arguments search_similar is called with: by any caller, by
\* query_documents (lines 104-109: max_results, similarity_threshold and
\* document_filter of its request) and by _retrieve_relevant_context (lines
\* 231-235: max_chunks, settings.similarity_threshold, no filter)
SearchCalls ==
    {[caller |-> c, limit |-> l, score_threshold |-> t, filter_conditions |-> f] :
        c \in {"search_similar", "query_documents"},
        l \in 1..MaxLimit, t \in Scores, f \in FilterConditions}
    \cup
    {[caller |-> "_retrieve_relevant_context", limit |-> MaxChunksDefault,
      score_threshold |-> t, filter_conditions |-> NoFilter] : t \in Scores}

\* lines 132-133: the adapter is degraded, the store is not contacted
SearchSimilarUnavailable ==
    /\ srch_args = NoResult
    /\ client = "none"
    /\ \E call \in SearchCalls : srch_args' = call
    /\ srch_result' = ClientUnavailable
    /\ UNCHANGED <<client, points, srch_scores>>
    /\ UNCHANGED notSearch

\* lines 147-153 and 176-178: client.search raises
SearchSimilarRaises ==
    /\ srch_args = NoResult
    /\ client # "none"
    /\ \E call \in SearchCalls : srch_args' = call
    /\ \E e \in StoreExceptions : srch_result' = [success |-> FALSE, error |-> e]
    /\ UNCHANGED <<client, points, srch_scores>>
    /\ UNCHANGED notSearch

\* lines 135-174: the store answers and its hits are returned
SearchSimilarOk ==
    /\ srch_args = NoResult
    /\ client # "none"
    /\ \E call \in SearchCalls, scores \in [{pt.id : pt \in points} -> Scores] :
           /\ srch_args' = call
           /\ srch_scores' = scores
           /\ \E hits \in ClientSearch(points, scores,
                             SearchRequest(call.limit, call.score_threshold,
                                           call.filter_conditions)) :
                  srch_result' = [success |-> TRUE,
                                  results |-> FormatResults(hits, scores),
                                  count |-> Len(FormatResults(hits, scores))]
    /\ UNCHANGED <<client, points>>
    /\ UNCHANGED notSearch

SearchNext ==
    \/ SearchSimilarUnavailable
    \/ SearchSimilarRaises
    \/ SearchSimilarOk

(***************************************************************************)
(* RAGEngine._extract_sources_info                                         *)
(***************************************************************************)
\* metadata.get("document_id") of a payload without one
NoDoc == "None"

\* a hit as search_similar returns it
Hit(doc, score, chunkText, index) ==
    [score |-> score,
     text |-> chunkText,
     metadata |-> [document_id |-> doc,
                   filename |-> <<"file-", doc>>,
                   chunk_index |-> index]]

\* the hits _extract_sources_info is tried on: any document or none, any score
SourceHits == {Hit(d, sc, <<"x">>, 0) : d \in DocIds \cup {NoDoc}, sc \in Scores}

\* lines 283-288: the entry of a document seen for the first time
NewSource(chunk) ==
    [document_id |-> chunk.metadata.document_id,
     filename |-> chunk.metadata.filename,
     relevance_score |-> chunk.score,
     chunk_count |-> 1]

\* a faulty variant of UpdatedSource: the score is overwritten, not maximised
UpdatedSourceLastScore(source, chunk) ==
    [source EXCEPT !.chunk_count = @ + 1, !.relevance_score = chunk.score]

\* lines 293-296: one more hit of a document already seen
UpdatedSource(source, chunk) ==
    [source EXCEPT !.chunk_count = @ + 1,
                   !.relevance_score = IF chunk.score > @ THEN chunk.score ELSE @]

\* lines 291-297: the first entry of the document is updated
UpdateFirst(srcs, chunk) ==
    LET k == CHOOSE i \in 1..Len(srcs) :
                 /\ srcs[i].document_id = chunk.metadata.document_id
                 /\ \A j \in 1..(i - 1) :
                        srcs[j].document_id # chunk.metadata.document_id
    IN  [srcs EXCEPT ![k] = UpdatedSource(srcs[k], chunk)]

\* lines 277-297: the loop over the hits
RECURSIVE ExtractLoop(_, _, _)
ExtractLoop(hits, srcs, seen_docs) ==
    IF hits = <<>>
    THEN srcs
    ELSE LET chunk == Head(hits)
             doc_id == chunk.metadata.document_id
         IN  IF doc_id # NoDoc /\ doc_id \notin seen_docs
             THEN ExtractLoop(Tail(hits), Append(srcs, NewSource(chunk)),
                              seen_docs \cup {doc_id})
             ELSE IF doc_id \in seen_docs
                  THEN ExtractLoop(Tail(hits), UpdateFirst(srcs, chunk), seen_docs)
                  ELSE ExtractLoop(Tail(hits), srcs, seen_docs)

\* lines 272-299
ExtractSourcesInfoOf(hits) == ExtractLoop(hits, <<>>, {})

ExtractSourcesInfo ==
    /\ src_pc = "start"
    /\ sources' = ExtractSourcesInfoOf(src_chunks)
    /\ src_pc' = "done"
    /\ UNCHANGED src_chunks
    /\ UNCHANGED notSources

SourcesNext == ExtractSourcesInfo

(***************************************************************************)
(* RAGEngine._build_context_from_chunks and _build_enhanced_system_prompt  *)
(* Strings are sequences of tokens: single characters, and one token for   *)
(* each fixed piece of the templates.                                      *)
(***************************************************************************)
\* the decimal rendering of a part number
NumStr(n) == <<"0", "1", "2", "3", "4", "5">>[n + 1]

\* line 270: the separator between blocks, "\n\n---\n\n"
BlockSeparator == <<LF, LF, "-", "-", "-", LF, LF>>

\* a faulty variant of ContextBlock: the part number is the raw chunk_index
ContextBlockZeroBased(chunk) ==
    IF Strip(chunk.text) # <<>>
    THEN <<"[doc: ">> \o chunk.metadata.filename \o <<", part ">>
             \o <<NumStr(chunk.metadata.chunk_index)>> \o <<"]", LF>>
             \o Strip(chunk.text)
    ELSE <<>>

\* lines 262-268: the block of one hit, nothing for a hit of blank text
ContextBlock(chunk) ==
    IF Strip(chunk.text) # <<>>
    THEN <<"[doc: ">> \o chunk.metadata.filename \o <<", part ">>
             \o <<NumStr(chunk.metadata.chunk_index + 1)>> \o <<"]", LF>>
             \o Strip(chunk.text)
    ELSE <<>>

\* str.join over the non-empty blocks
RECURSIVE JoinBlocks(_)
JoinBlocks(hits) ==
    IF hits = <<>>
    THEN <<>>
    ELSE LET block == ContextBlock(Head(hits))
             rest == JoinBlocks(Tail(hits))
         IN  IF block = <<>> THEN rest
             ELSE IF rest = <<>> THEN block
             ELSE block \o BlockSeparator \o rest

\* lines 254-270
BuildContextFromChunks(hits) ==
    IF hits = <<>> THEN <<>> ELSE JoinBlocks(hits)

\* a faulty variant of BuildEnhancedSystemPrompt: the template is appended
\* whether or not there is a context
BuildEnhancedSystemPromptAlways(base, context, q) ==
    base \o <<LF, LF, "context-header", LF>> \o context
         \o <<LF, LF, "instruction", LF, LF, "question: ">> \o q \o <<LF>>

\* lines 301-321
BuildEnhancedSystemPrompt(base, context, q) ==
    IF context = <<>>
    THEN base
    ELSE base \o <<LF, LF, "context-header", LF>> \o context
              \o <<LF, LF, "instruction", LF, LF, "question: ">> \o q \o <<LF>>

\* the hits the context builder is tried on: blank and non-blank texts
ContextHits ==
    {Hit(d, 1, t, i) : d \in DocIds, t \in {<<>>, <<SP>>, <<"x">>, <<SP, "y">>}, i \in 0..1}
BasePrompts == {<<>>, <<"B">>}
Queries == {<<>>, <<"q">>}

\* lines 119 and 241: the context is built from the hits
BuildContext ==
    /\ ctx_pc = "start"
    /\ context_text' = BuildContextFromChunks(ctx_chunks)
    /\ ctx_pc' = "context"
    /\ UNCHANGED <<ctx_chunks, base_prompt, query, enhanced_prompt>>
    /\ UNCHANGED notPrompt

\* lines 125-129 and 185-189: the prompt is built from the context
BuildPrompt ==
    /\ ctx_pc = "context"
    /\ enhanced_prompt' = BuildEnhancedSystemPrompt(base_prompt, context_text, query)
    /\ ctx_pc' = "prompt"
    /\ UNCHANGED <<ctx_chunks, base_prompt, query, context_text>>
    /\ UNCHANGED notPrompt

PromptNext == BuildContext \/ BuildPrompt

(***************************************************************************)
(* QdrantService against its backing store, and the operations of          *)
(* RAGEngine that store, fetch and delete documents.                       *)
(* An error text built by an f-string is the tuple of its pieces.          *)
(***************************************************************************)
\* line 197 of qdrant_service.py: the page size of the scroll request
ScrollLimit == 1000
\* line 363 of rag_engine.py: the characters of the text sent for a summary
SummaryBudget == 4000

\* the sizes of the documents ingested: small ones, and one that does not
\* fit in one page of the scroll
DocSizes == (1..MaxChunks) \cup {ScrollLimit + 1}

\* the chunks process_document hands over for a document of n chunks: two
\* texts in turn, long enough for the chunks of one page of the scroll to
\* pass the budget of the summary
ChunkTexts == <<<<"x", "x", "x", "x">>, <<"y", "y", "y", "y">>>>
TextChunks(n) == [i \in 1..n |-> ChunkDict(ChunkTexts[((i - 1) % 2) + 1], i - 1)]
\* the name of the file uploaded: the same file at every upload
UploadedFileName == <<"report.txt">>

\* the vector of a text: the embedding provider, taken as a function
EmbeddingOf(t) == IF t = ChunkTexts[1] THEN <<1>> ELSE <<2>>

\* what generate_embeddings returns: one vector per text, or the failure
\* of the first call that failed
EmbedErrors == {"Embedding API Error: 500", "timeout"}
EmbedOutcomes(texts) ==
    {EmbeddingsSuccess([i \in 1..Len(texts) |-> EmbeddingOf(texts[i])])}
        \cup {[success |-> FALSE, error |-> e] : e \in EmbedErrors}

\* the orders in which the uuid4 ids of n new points may sort: any order for
\* a small document, the chunk order or its reverse for a large one
IdOrders(n) ==
    IF n <= MaxChunks
    THEN {f \in [1..n -> 1..n] : \A i, j \in 1..n : i # j => f[i] # f[j]}
    ELSE {[i \in 1..n |-> i], [i \in 1..n |-> n + 1 - i]}

\* the number of point ids drawn so far: ids are never drawn twice, and the
\* k-th id drawn is modelled as k
RECURSIVE SumIngested(_)
SumIngested(docs) ==
    IF docs = {}
    THEN 0
    ELSE LET d == CHOOSE x \in docs : TRUE
         IN  ingested[d] + SumIngested(docs \ {d})
IdsDrawn == SumIngested(DocIds)

\* a remote call of an operation: the service, the request, what it carried,
\* and its outcome: "ok", or the error text of its failure
RemoteCall(service, op, arg, outcome) ==
    [service |-> service, op |-> op, arg |-> arg, outcome |-> outcome]

\* settings.chat_model
ChatModel == "chat-model"

\* a message handed to the chat service
Message(role, content) == [role |-> role, content |-> content]

\* what generate_chat_response returns (ai_service.py lines 63-85)
CompletionErrors == {"API Error: 500", "Internal error"}
CompletionOutcomes ==
    {[success |-> TRUE, response |-> <<"answer">>, model |-> ChatModel]}
        \cup {[success |-> FALSE, error |-> e] : e \in CompletionErrors}

\* the call of generate_chat_response
CompletionCall(messages, system_prompt, completion) ==
    RemoteCall("chat", "generate_chat_response",
               [messages |-> messages, system_prompt |-> system_prompt],
               IF completion.success THEN "ok" ELSE completion.error)

\* the backing store answers a request on the collection
StoreAnswers == store_up /\ coll_exists
\* what the client raises when it does not
StoreError == IF store_up THEN "collection not found" ELSE "connection refused"
\* the outcome of a request on the collection
StoreOutcome == IF StoreAnswers THEN "ok" ELSE StoreError

\* lines 24-42 and 44-65: the constructor.  QdrantClient(...) itself may or
\* may not raise; _ensure_collection_exists keeps its own failures to itself.
QdrantServiceInit ==
    /\ client = "unconstructed"
    /\ \E available \in BOOLEAN, raises \in BOOLEAN :
           IF ~available \/ raises
           THEN /\ client' = "none"
                /\ rag_calls' = <<>>
                /\ UNCHANGED coll_exists
           ELSE /\ client' = "connected"
                /\ coll_exists' = (coll_exists \/ store_up)
                /\ rag_calls' =
                       <<RemoteCall("store", "get_collections", <<>>,
                                    IF store_up THEN "ok" ELSE StoreError)>>
                           \o (IF store_up /\ ~coll_exists
                               THEN <<RemoteCall("store", "create_collection", <<>>, "ok")>>
                               ELSE <<>>)
    /\ store_at_init' = (IF store_up THEN "up" ELSE "down")
    /\ rag_op' = [name |-> "QdrantService"]
    /\ rag_result' = NoResult
    /\ UNCHANGED <<points, store_up, ingested, deleted>>
    /\ UNCHANGED notStore

\* the backing store goes down or comes back
StoreFlips ==
    /\ client # "unconstructed"
    /\ store_up' = ~store_up
    /\ UNCHANGED <<client, points, coll_exists, store_at_init, rag_op, rag_result,
                   rag_calls, ingested, deleted>>
    /\ UNCHANGED notStore

\* lines 89-96: the payload of a point
Payload(chunkText, meta) ==
    [text |-> chunkText,
     document_id |-> meta.document_id,
     filename |-> meta.filename,
     chunk_index |-> meta.chunk_index]

\* a faulty variant of NewPoints: the vectors are attached in reverse order
NewPointsMisaligned(texts, embeddings, metadata, ids) ==
    {[id |-> ids[i], vector |-> embeddings[Len(texts) + 1 - i],
      payload |-> Payload(texts[i], metadata[i])] : i \in 1..Len(texts)}

\* lines 84-102: one point per text, under the ids drawn for them
NewPoints(texts, embeddings, metadata, ids) ==
    {[id |-> ids[i], vector |-> embeddings[i], payload |-> Payload(texts[i], metadata[i])] :
        i \in 1..Len(texts)}

\* a faulty variant of PointIds: the chunk's position is the storage id
PointIdsFromChunkIndex(n, order) == [i \in 1..n |-> i]

\* line 85: str(uuid.uuid4()) for each point, ids never drawn before
PointIds(n, order) == [i \in 1..n |-> IdsDrawn + order[i]]

\* lines 105-108: client.upsert stores the new points; a stored point whose
\* id is one of theirs is replaced
ClientUpsert(pts, new) ==
    {pt \in pts : \A q \in new : q.id # pt.id} \cup new

\* lines 67-121: add_documents; the upsert stores all the points or raises
AddDocuments(texts, embeddings, metadata, order) ==
    IF client = "none"
    THEN [result |-> ClientUnavailable, points |-> points, calls |-> <<>>]
    ELSE IF Len(texts) # Len(embeddings) \/ Len(texts) # Len(metadata)
    THEN [result |-> [success |-> FALSE, error |-> "Mismatched input lengths"],
          points |-> points, calls |-> <<>>]
    ELSE IF ~StoreAnswers
    THEN [result |-> [success |-> FALSE, error |-> StoreError],
          points |-> points,
          calls |-> <<RemoteCall("store", "upsert", Len(texts), StoreError)>>]
    ELSE LET ids == PointIds(Len(texts), order)
         IN  [result |-> [success |-> TRUE, point_ids |-> ids, count |-> Len(texts)],
              points |-> ClientUpsert(points, NewPoints(texts, embeddings, metadata, ids)),
              calls |-> <<RemoteCall("store", "upsert", Len(texts), "ok")>>]

\* lines 43-50 of rag_engine.py: the metadata of each chunk
ChunkMetadata(text_chunks, metadata) ==
    [i \in 1..Len(text_chunks) |->
        [document_id |-> metadata.document_id,
         filename |-> metadata.filename,
         chunk_index |-> text_chunks[i].chunk_index,
         character_count |-> text_chunks[i].character_count,
         embedding_model |-> EmbeddingModel]]

\* a faulty variant of EmbeddingFailure: the failure is reported as one of
\* the vector database
EmbeddingFailureAsStorage(emb) ==
    [success |-> FALSE, error |-> <<"Failed to store in vector database: ", emb.error>>]

\* lines 33-37 of rag_engine.py: the result when generate_embeddings failed
EmbeddingFailure(emb) ==
    [success |-> FALSE, error |-> <<"Failed to generate embeddings: ", emb.error>>]

\* lines 20-80 of rag_engine.py: process_and_store_document, given what
\* generate_embeddings returned and the order of the ids drawn
ProcessAndStore(text_chunks, metadata, emb, order) ==
    LET texts == [i \in 1..Len(text_chunks) |-> text_chunks[i].text]
        embedCall == RemoteCall("embed", "generate_embeddings", texts,
                                IF emb.success THEN "ok" ELSE emb.error)
    IN  IF ~emb.success
        THEN [result |-> EmbeddingFailure(emb),
              points |-> points,
              calls |-> <<embedCall>>]
        ELSE LET stored == AddDocuments(texts, emb.embeddings,
                                        ChunkMetadata(text_chunks, metadata), order)
             IN  IF ~stored.result.success
                 THEN [result |-> [success |-> FALSE,
                                   error |-> <<"Failed to store in vector database: ",
                                               stored.result.error>>],
                       points |-> stored.points,
                       calls |-> <<embedCall>> \o stored.calls]
                 ELSE [result |-> [success |-> TRUE,
                                   document_id |-> metadata.document_id,
                                   chunks_processed |-> Len(text_chunks),
                                   embeddings_generated |-> Len(emb.embeddings),
                                   points_stored |-> stored.result.count],
                       points |-> stored.points,
                       calls |-> <<embedCall>> \o stored.calls]

\* the document_ids process_document may draw: uuid4 values not seen before
FreshDocIds == {d \in DocIds : ingested[d] = 0 /\ d \notin deleted}

\* a large document is in the store
LargeStored == \E d \in DocIds : ingested[d] > MaxChunks /\ d \notin deleted

\* upload of a document: its chunks are embedded and stored.  A large
\* document is uploaded to a collection that has held nothing yet, and is
\* alone in it until it is deleted.
ProcessAndStoreDocument ==
    /\ client # "unconstructed"
    /\ ~LargeStored
    /\ \E n \in {k \in DocSizes : k > MaxChunks => (IdsDrawn = 0 /\ deleted = {})},
          d \in FreshDocIds :
         \E emb \in EmbedOutcomes([i \in 1..n |-> TextChunks(n)[i].text]),
            order \in IdOrders(n) :
           \E out \in {ProcessAndStore(TextChunks(n),
                                       [document_id |-> d, filename |-> UploadedFileName],
                                       emb, order)} :
               /\ rag_op' = [name |-> "process_and_store_document",
                             document_id |-> d, n |-> n]
               /\ rag_result' = out.result
               /\ rag_calls' = out.calls
               /\ points' = out.points
               /\ ingested' = IF out.result.success
                              THEN [ingested EXCEPT ![d] = n]
                              ELSE ingested
    /\ UNCHANGED <<client, store_up, coll_exists, deleted, store_at_init>>
    /\ UNCHANGED notStore

\* the lengths of the three lists of a direct add_documents call whose
\* lists do not match
MismatchedLengths ==
    LET lengths == {MaxChunks - 1, MaxChunks}
    IN  {lens \in lengths \X lengths \X lengths :
            lens[1] # lens[2] \/ lens[1] # lens[3]}

\* add_documents called with lists of different lengths, on a collection
\* of small documents
AddDocumentsMismatched ==
    /\ client # "unconstructed"
    /\ ~LargeStored
    /\ \E lens \in MismatchedLengths :
         \E out \in {AddDocuments(
                         [i \in 1..lens[1] |-> TextChunks(lens[1])[i].text],
                         [i \in 1..lens[2] |-> EmbeddingOf(TextChunks(lens[2])[i].text)],
                         ChunkMetadata(TextChunks(lens[3]),
                                       [document_id |-> CHOOSE d \in DocIds : TRUE,
                                        filename |-> UploadedFileName]),
                         [i \in 1..lens[1] |-> i])} :
             /\ rag_op' = [name |-> "add_documents"]
             /\ rag_result' = out.result
             /\ rag_calls' = out.calls
             /\ points' = out.points
    /\ UNCHANGED <<client, store_up, coll_exists, ingested, deleted, store_at_init>>
    /\ UNCHANGED notStore

\* the points of a set in ascending id order (ids lie in lo..hi)
RECURSIVE OrderById(_, _, _)
OrderById(pts, lo, hi) ==
    IF pts = {}
    THEN <<>>
    ELSE IF lo >= hi
    THEN <<CHOOSE pt \in pts : TRUE>>
    ELSE LET mid == (lo + hi) \div 2
         IN  OrderById({pt \in pts : pt.id <= mid}, lo, mid)
                 \o OrderById({pt \in pts : pt.id > mid}, mid + 1, hi)

\* lines 194-198: client.scroll answers with one page: the points of the
\* document in id order, at most `limit` of them
ClientScroll(pts, document_id, limit) ==
    LET matching == {pt \in pts : pt.payload.document_id = document_id}
        ordered == OrderById(matching, 1, IdsDrawn)
    IN  SubSeq(ordered, 1, Min(limit, Len(ordered)))

\* lines 202-207: the dict of one point
ChunkOf(point) ==
    [id |-> point.id,
     text |-> point.payload.text,
     chunk_index |-> point.payload.chunk_index,
     metadata |-> point.payload]

\* list.sort by chunk_index: a stable sort (chunk_index lies in lo..hi)
RECURSIVE SortRange(_, _, _)
SortRange(chunkList, lo, hi) ==
    IF Len(chunkList) <= 1 \/ lo >= hi
    THEN chunkList
    ELSE LET mid == (lo + hi) \div 2
             Low(c) == c.chunk_index <= mid
             High(c) == c.chunk_index > mid
         IN  SortRange(SelectSeq(chunkList, Low), lo, mid)
                 \o SortRange(SelectSeq(chunkList, High), mid + 1, hi)

\* line 210: no chunk_index is larger than that of the last chunk of the
\* largest document
SortByChunkIndex(chunkList) == SortRange(chunkList, 0, ScrollLimit)

\* lines 180-220: get_document_chunks
GetDocumentChunksOf(document_id) ==
    IF client = "none"
    THEN [result |-> ClientUnavailable, calls |-> <<>>]
    ELSE IF ~StoreAnswers
    THEN [result |-> [success |-> FALSE, error |-> StoreError],
          calls |-> <<RemoteCall("store", "scroll", document_id, StoreError)>>]
    ELSE LET page == ClientScroll(points, document_id, ScrollLimit)
             sorted == SortByChunkIndex([i \in 1..Len(page) |-> ChunkOf(page[i])])
         IN  [result |-> [success |-> TRUE, chunks |-> sorted, count |-> Len(sorted)],
              calls |-> <<RemoteCall("store", "scroll", document_id, "ok")>>]

\* a faulty variant of PointsAfterDelete: only one matching point is removed
PointsAfterDeleteOne(pts, document_id) ==
    LET matching == {pt \in pts : pt.payload.document_id = document_id}
    IN  IF matching = {} THEN pts ELSE pts \ {CHOOSE pt \in matching : TRUE}

\* a faulty variant of PointsAfterDelete: the collection is emptied
PointsAfterDeleteAll(pts, document_id) == {}

\* lines 229-239: client.delete removes every point the filter selects
PointsAfterDelete(pts, document_id) ==
    {pt \in pts : pt.payload.document_id # document_id}

\* lines 222-250: delete_document
DeleteDocumentOf(document_id) ==
    IF client = "none"
    THEN [result |-> ClientUnavailable, points |-> points, calls |-> <<>>]
    ELSE IF ~StoreAnswers
    THEN [result |-> [success |-> FALSE, error |-> StoreError],
          points |-> points,
          calls |-> <<RemoteCall("store", "delete", document_id, StoreError)>>]
    ELSE [result |-> [success |-> TRUE],
          points |-> PointsAfterDelete(points, document_id),
          calls |-> <<RemoteCall("store", "delete", document_id, "ok")>>]

\* get_document_chunks called for a document
GetDocumentChunks ==
    /\ client # "unconstructed"
    /\ \E d \in DocIds :
           \E out \in {GetDocumentChunksOf(d)} :
               /\ rag_op' = [name |-> "get_document_chunks", document_id |-> d]
               /\ rag_result' = out.result
               /\ rag_calls' = out.calls
    /\ UNCHANGED <<client, points, store_up, coll_exists, ingested, deleted, store_at_init>>
    /\ UNCHANGED notStore

\* lines 323-338 of rag_engine.py: delete_document hands the adapter's result on
DeleteDocument ==
    /\ client # "unconstructed"
    /\ \E d \in DocIds :
           \E out \in {DeleteDocumentOf(d)} :
               /\ rag_op' = [name |-> "delete_document", document_id |-> d]
               /\ rag_result' = out.result
               /\ rag_calls' = out.calls
               /\ points' = out.points
               /\ deleted' = IF out.result.success THEN deleted \cup {d} ELSE deleted
    /\ UNCHANGED <<client, store_up, coll_exists, ingested, store_at_init>>
    /\ UNCHANGED notStore

\* the texts of chunks lo..hi of a list joined by one space
RECURSIVE JoinTexts(_, _, _)
JoinTexts(chunkList, lo, hi) ==
    IF lo > hi
    THEN <<>>
    ELSE IF lo = hi
    THEN chunkList[lo].text
    ELSE LET mid == (lo + hi) \div 2
         IN  JoinTexts(chunkList, lo, mid) \o <<" ">>
                 \o JoinTexts(chunkList, mid + 1, hi)

\* line 360 of rag_engine.py: " ".join([chunk["text"] for chunk in chunks])
FullText(chunkList) == JoinTexts(chunkList, 1, Len(chunkList))

\* s[:n]
Truncate(s, n) == SubSeq(s, 1, Min(n, Len(s)))

\* line 363 of rag_engine.py: the instruction followed by full_text[:4000]
SummaryPrompt(full_text) == <<"summarize: ">> \o Truncate(full_text, SummaryBudget)

\* lines 365-368 of rag_engine.py: the system prompt of the summary
SummarySystemPrompt == <<"summary-system-prompt">>

\* lines 340-395 of rag_engine.py: get_document_summary, given what the chat
\* service returns if it is called
GetDocumentSummaryOf(document_id, fetched, completion) ==
    IF ~fetched.result.success
    THEN [result |-> [success |-> FALSE,
                      error |-> <<"Failed to get document chunks: ",
                                  fetched.result.error>>],
          calls |-> fetched.calls]
    ELSE IF fetched.result.chunks = <<>>
    THEN [result |-> [success |-> FALSE, error |-> "No chunks found for document"],
          calls |-> fetched.calls]
    ELSE LET chunkList == fetched.result.chunks
             full_text == FullText(chunkList)
             messages == <<Message("user", SummaryPrompt(full_text))>>
             calls == fetched.calls
                          \o <<CompletionCall(messages, SummarySystemPrompt, completion)>>
         IN  IF ~completion.success
             THEN [result |-> [success |-> FALSE,
                               error |-> <<"Failed to generate summary: ",
                                           completion.error>>],
                   calls |-> calls]
             ELSE [result |-> [success |-> TRUE,
                               document_id |-> document_id,
                               summary |-> completion.response,
                               chunk_count |-> Len(chunkList),
                               total_characters |-> Len(full_text),
                               filename |-> chunkList[1].metadata.filename],
                   calls |-> calls]

\* get_document_summary called for a document
GetDocumentSummary ==
    /\ client # "unconstructed"
    /\ \E d \in DocIds :
         \E fetched \in {GetDocumentChunksOf(d)} :
           \E completion \in CompletionOutcomes :
             \E out \in {GetDocumentSummaryOf(d, fetched, completion)} :
               /\ rag_op' = [name |-> "get_document_summary", document_id |-> d]
               /\ rag_result' = out.result
               /\ rag_calls' = out.calls
    /\ UNCHANGED <<client, points, store_up, coll_exists, ingested, deleted, store_at_init>>
    /\ UNCHANGED notStore

\* lines 252-272: get_collection_info
GetCollectionInfo ==
    /\ client # "unconstructed"
    /\ rag_op' = [name |-> "get_collection_info"]
    /\ rag_result' =
           IF client = "none" THEN ClientUnavailable
           ELSE IF ~StoreAnswers THEN [success |-> FALSE, error |-> StoreError]
           ELSE [success |-> TRUE, info |-> [points_count |-> Cardinality(points)]]
    /\ rag_calls' =
           IF client = "none" THEN <<>>
           ELSE <<RemoteCall("store", "get_collection", <<>>, StoreOutcome)>>
    /\ UNCHANGED <<client, points, store_up, coll_exists, ingested, deleted, store_at_init>>
    /\ UNCHANGED notStore

\* lines 274-286: health_check
HealthCheck ==
    /\ client # "unconstructed"
    /\ rag_op' = [name |-> "health_check"]
    /\ rag_result' = [healthy |-> (client # "none" /\ StoreAnswers)]
    /\ rag_calls' =
           IF client = "none" THEN <<>>
           ELSE <<RemoteCall("store", "get_collection", <<>>, StoreOutcome)>>
    /\ UNCHANGED <<client, points, store_up, coll_exists, ingested, deleted, store_at_init>>
    /\ UNCHANGED notStore

StoreNext ==
    \/ QdrantServiceInit
    \/ StoreFlips
    \/ ProcessAndStoreDocument
    \/ AddDocumentsMismatched
    \/ GetDocumentChunks
    \/ GetDocumentSummary
    \/ DeleteDocument
    \/ GetCollectionInfo
    \/ HealthCheck

(***************************************************************************)
(* RAGEngine.query_documents, chat_with_context and                        *)
(* _retrieve_relevant_context.  None, for a prompt or a context, is the    *)
(* empty string: the code reads both through `x or default`.               *)
(***************************************************************************)
\* settings.default_system_prompt
DefaultSystemPrompt == <<"default-system-prompt">>
\* lines 126 and 186: system_prompt or self.settings.default_system_prompt
BasePromptOf(system_prompt) ==
    IF system_prompt = <<>> THEN DefaultSystemPrompt ELSE system_prompt

\* the call of generate_embeddings on one query
QueryEmbedCall(q, emb) ==
    RemoteCall("embed", "generate_embeddings", <<q>>,
               IF emb.success THEN "ok" ELSE emb.error)

\* qdrant_service.py lines 123-178: what search_similar may return, with the
\* request it sent to the store, if any
SearchSimilarOutcomes(limit, score_threshold, filter_conditions) ==
    LET request == SearchRequest(limit, score_threshold, filter_conditions)
    IN  IF client = "none"
        THEN {[result |-> ClientUnavailable, calls |-> <<>>]}
        ELSE IF ~StoreAnswers
        THEN {[result |-> [success |-> FALSE, error |-> StoreError],
               calls |-> <<RemoteCall("store", "search", request, StoreError)>>]}
        ELSE UNION {{[result |-> [success |-> TRUE,
                                  results |-> FormatResults(hits, scores),
                                  count |-> Len(FormatResults(hits, scores))],
                      calls |-> <<RemoteCall("store", "search", request, "ok")>>] :
                        hits \in ClientSearch(points, scores, request)} :
                     scores \in [{pt.id : pt \in points} -> Scores]}

\* a faulty variant of NoHitsRetrieval: no hit is reported as a failure
NoHitsRetrievalFails == [success |-> FALSE, context |-> <<>>, sources |-> <<>>]

\* line 238: what retrieval returns when the search failed or found nothing
NoHitsRetrieval == [success |-> TRUE, context |-> <<>>, sources |-> <<>>]

\* lines 219-252: _retrieve_relevant_context, given what generate_embeddings
\* and search_similar returned
RetrieveRelevantContext(emb, search) ==
    IF ~emb.success
    THEN [success |-> FALSE, context |-> <<>>, sources |-> <<>>]
    ELSE IF ~search.success \/ search.results = <<>>
    THEN NoHitsRetrieval
    ELSE [success |-> TRUE,
          context |-> BuildContextFromChunks(search.results),
          sources |-> ExtractSourcesInfoOf(search.results)]

\* the messages of the histories: a question, an empty question, an answer
HistoryMessages ==
    {Message("user", <<"q">>), Message("user", <<>>), Message("assistant", <<"a">>)}

\* line 175: messages[-1]["content"] if messages else ""
LatestMessage(messages) ==
    IF messages # <<>> THEN messages[Len(messages)].content ELSE <<>>

\* a faulty variant of ContextUsed: a supplied context is not counted
ContextUsedNever(context) == FALSE

\* line 207: len(context_text) > 0
ContextUsed(context) == Len(context) > 0

\* a faulty variant of ContextReplaced: an empty retrieved context leaves
\* the supplied one in place
ContextReplacedWhenFound(retrieves, retrieval) ==
    retrieves /\ retrieval.success /\ retrieval.context # <<>>

\* lines 178-182: the retrieved context and sources replace the supplied ones
ContextReplaced(retrieves, retrieval) == retrieves /\ retrieval.success

\* how many hits the search of a request returned: -1 when the request made
\* no search or the search failed
HitsFound(searches, emb, search) ==
    IF searches /\ emb.success /\ search.success THEN Len(search.results) ELSE -1

\* lines 162-217: chat_with_context, given what the embedding service, the
\* adapter and the chat service returned when they were called
ChatWithContextOf(messages, system_prompt, document_context, auto_retrieve, emb, search, completion) ==
    LET latest_message == LatestMessage(messages)
        retrieves == auto_retrieve /\ latest_message # <<>>
        retrieval == RetrieveRelevantContext(emb, search.result)
        replaced == ContextReplaced(retrieves, retrieval)
        context == IF replaced THEN retrieval.context ELSE document_context
        found == IF replaced THEN retrieval.sources ELSE <<>>
        enhanced == BuildEnhancedSystemPrompt(BasePromptOf(system_prompt),
                                              context, latest_message)
        retrievalCalls ==
            IF ~retrieves THEN <<>>
            ELSE <<QueryEmbedCall(latest_message, emb)>>
                     \o (IF emb.success THEN search.calls ELSE <<>>)
    IN  [result |->
            IF ~completion.success
            THEN [success |-> FALSE,
                  error |-> <<"Failed to generate response: ", completion.error>>]
            ELSE [success |-> TRUE,
                  response |-> completion.response,
                  sources |-> found,
                  context_used |-> ContextUsed(context),
                  model_used |-> completion.model],
         hits |-> HitsFound(retrieves, emb, search.result),
         calls |-> retrievalCalls
                     \o <<CompletionCall(messages, enhanced, completion)>>]

\* a faulty variant of QueryEmbeddingFailed: the request goes on after a
\* failed embedding
QueryEmbeddingGoesOn(emb) == FALSE

\* line 101: if not embedding_result["success"]
QueryEmbeddingFailed(emb) == ~emb.success

\* lines 82-160: query_documents, given what the embedding service, the
\* adapter and the chat service returned when they were called
QueryDocumentsOf(q, system_prompt, emb, search, completion) ==
    IF QueryEmbeddingFailed(emb)
    THEN [result |-> [success |-> FALSE,
                      error |-> <<"Failed to generate query embedding: ", emb.error>>],
          calls |-> <<QueryEmbedCall(q, emb)>>]
    ELSE IF ~search.result.success
    THEN [result |-> [success |-> FALSE,
                      error |-> <<"Failed to search documents: ",
                                  search.result.error>>],
          calls |-> <<QueryEmbedCall(q, emb)>> \o search.calls]
    ELSE LET context_chunks == search.result.results
             enhanced == BuildEnhancedSystemPrompt(
                             BasePromptOf(system_prompt),
                             BuildContextFromChunks(context_chunks), q)
             messages == <<Message("user", q)>>
             calls == <<QueryEmbedCall(q, emb)>> \o search.calls
                          \o <<CompletionCall(messages, enhanced, completion)>>
         IN  IF ~completion.success
             THEN [result |-> [success |-> FALSE,
                               error |-> <<"Failed to generate AI response: ",
                                           completion.error>>],
                   calls |-> calls]
             ELSE [result |-> [success |-> TRUE,
                               response |-> completion.response,
                               query |-> q,
                               sources |-> ExtractSourcesInfoOf(context_chunks),
                               context_chunks |-> Len(context_chunks),
                               model_used |-> completion.model],
                   calls |-> calls]

\* the collections a request is answered from: up to one point per document id
QueryStores == {pts \in StoreContents : Cardinality(pts) <= Cardinality(DocIds)}

\* the histories a caller hands to chat_with_context
Histories == SeqsUpTo(HistoryMessages, MaxHistory)
\* the system prompts a caller supplies: none, or its own
SystemPrompts == {<<>>, <<"be brief">>}
\* the document contexts a caller supplies: none, or a text
DocumentContexts == {<<>>, <<"supplied context">>}

\* one call of chat_with_context
ChatWithContext ==
    /\ rag_op.name = "-"
    /\ client \in {"connected", "none"}
    /\ \E messages \in Histories, system_prompt \in SystemPrompts,
          document_context \in DocumentContexts, auto_retrieve \in BOOLEAN,
          threshold \in Scores :
         \E emb \in EmbedOutcomes(<<LatestMessage(messages)>>),
            search \in SearchSimilarOutcomes(MaxChunksDefault, threshold, NoFilter),
            completion \in CompletionOutcomes :
           \E out \in {ChatWithContextOf(messages, system_prompt, document_context,
                                         auto_retrieve, emb, search, completion)} :
              /\ rag_op' = [name |-> "chat_with_context",
                            messages |-> messages,
                            system_prompt |-> system_prompt,
                            document_context |-> document_context,
                            auto_retrieve |-> auto_retrieve,
                            hits |-> out.hits]
              /\ rag_result' = out.result
              /\ rag_calls' = out.calls
    /\ UNCHANGED notQuery
    /\ UNCHANGED <<client, points, store_up, coll_exists, ingested, deleted,
                   store_at_init>>

\* one call of query_documents
QueryDocuments ==
    /\ rag_op.name = "-"
    /\ client \in {"connected", "none"}
    /\ \E q \in Queries, system_prompt \in SystemPrompts, max_results \in 1..MaxLimit,
          threshold \in Scores, document_filter \in FilterConditions :
         \E emb \in EmbedOutcomes(<<q>>),
            search \in SearchSimilarOutcomes(max_results, threshold, document_filter),
            completion \in CompletionOutcomes :
           \E out \in {QueryDocumentsOf(q, system_prompt, emb, search, completion)} :
              /\ rag_op' = [name |-> "query_documents",
                            query |-> q,
                            system_prompt |-> system_prompt,
                            max_results |-> max_results,
                            document_filter |-> document_filter,
                            hits |-> HitsFound(TRUE, emb, search.result)]
              /\ rag_result' = out.result
              /\ rag_calls' = out.calls
    /\ UNCHANGED notQuery
    /\ UNCHANGED <<client, points, store_up, coll_exists, ingested, deleted,
                   store_at_init>>

QueryNext == ChatWithContext \/ QueryDocuments

\* the points an upload of n chunks left for document d, the ids drawn
\* before it being 1..first
UploadedPoints(d, n, first) ==
    NewPoints([i \in 1..n |-> TextChunks(n)[i].text],
              [i \in 1..n |-> EmbeddingOf(TextChunks(n)[i].text)],
              ChunkMetadata(TextChunks(n),
                            [document_id |-> d, filename |-> UploadedFileName]),
              [i \in 1..n |-> first + i])

\* the collections left by the uploads of up to two small documents
UploadedStores ==
    {UploadedPoints("d1", sizes[1], 0) \cup UploadedPoints("d2", sizes[2], sizes[1]) :
        sizes \in {sz \in (0..MaxChunks) \X (0..MaxChunks) :
                      sz[1] + sz[2] <= Cardinality(DocIds)}}

\* the requests that read the collection, and the deletion of a document
ReadersNext ==
    \/ ChatWithContext
    \/ QueryDocuments
    \/ GetDocumentChunks
    \/ GetDocumentSummary
    \/ DeleteDocument

(***************************************************************************)
(* api/chat.py: the in-memory chat sessions.  datetime.now() is a clock     *)
(* that has moved on each time a message is stamped.                       *)
(***************************************************************************)
\* line 96: the length the session history is cut back to
SessionCap == 20
\* the session ids a request names; 'default' is the one used when none is given
SessionIds == {"default"}
\* the JSON bodies of POST /message: without a message, or with one
MessageBodies ==
    {[empty |-> TRUE]}
        \cup {[message |-> <<"q">>, session_id |-> s, use_rag |-> r, system_prompt |-> p] :
                 s \in SessionIds, r \in BOOLEAN, p \in SystemPrompts}

\* a response: its status and the success flag of its body
Response(status, success) == [status |-> status, success |-> success]

\* lines 44-50: the session of the request, created if it is not there
SessionOf(session_id) ==
    IF session_id \in DOMAIN chat_sessions
    THEN chat_sessions[session_id]
    ELSE [messages |-> <<>>, created_at |-> now]

\* chat_sessions with the session of session_id set to session
WithSession(session_id, session) ==
    [s \in (DOMAIN chat_sessions) \cup {session_id} |->
        IF s = session_id THEN session ELSE chat_sessions[s]]

\* lines 53-57 and 86-92: the two messages a request appends
UserMessage(content, timestamp) ==
    [role |-> "user", content |-> content, timestamp |-> timestamp]
AssistantMessage(result, timestamp) ==
    [role |-> "assistant", content |-> result.response, timestamp |-> timestamp,
     sources |-> result.sources, context_used |-> result.context_used]

\* lines 96-97: keep the last 20 messages
LimitHistory(messages) ==
    IF Len(messages) > SessionCap
    THEN SubSeq(messages, Len(messages) - SessionCap + 1, Len(messages))
    ELSE messages

\* lines 70-80: the direct answer, shaped like the answer with retrieval
DirectAnswer(completion) ==
    IF completion.success
    THEN [success |-> TRUE, response |-> completion.response, model |-> completion.model,
          sources |-> <<>>, context_used |-> FALSE]
    ELSE completion

\* lines 61-80: what the request may get as response_result
ResponseResults(messages, use_rag, system_prompt) ==
    IF use_rag
    THEN {ChatWithContextOf(messages, system_prompt, <<>>, TRUE,
                            emb, search, completion).result :
             emb \in EmbedOutcomes(<<LatestMessage(messages)>>),
             search \in SearchSimilarOutcomes(MaxChunksDefault, MaxScore, NoFilter),
             completion \in CompletionOutcomes}
    ELSE {DirectAnswer(completion) : completion \in CompletionOutcomes}

\* lines 26-114: POST /message
SendMessage ==
    /\ now + 2 <= MaxMessages
    /\ \E data \in MessageBodies :
         IF "message" \notin DOMAIN data
         THEN /\ chat_response' = Response(400, FALSE)
              /\ UNCHANGED <<chat_sessions, now, appended>>
         ELSE LET session == SessionOf(data.session_id)
                  user_message == UserMessage(data.message, now + 1)
                  asked == Append(session.messages, user_message)
              IN  \E response_result \in
                        ResponseResults(asked, data.use_rag, data.system_prompt) :
                    IF ~response_result.success
                    THEN /\ chat_sessions' =
                                WithSession(data.session_id,
                                            [session EXCEPT !.messages = asked])
                         /\ appended' = [appended EXCEPT ![data.session_id] =
                                            Append(@, user_message)]
                         /\ now' = now + 1
                         /\ chat_response' = Response(500, FALSE)
                    ELSE LET assistant_message ==
                                 AssistantMessage(response_result, now + 2)
                         IN  /\ chat_sessions' =
                                    WithSession(data.session_id,
                                        [session EXCEPT !.messages =
                                            LimitHistory(Append(asked, assistant_message))])
                             /\ appended' = [appended EXCEPT ![data.session_id] =
                                                @ \o <<user_message, assistant_message>>]
                             /\ now' = now + 2
                             /\ chat_response' = Response(200, TRUE)
    /\ UNCHANGED notSession

\* lines 177-198: DELETE /session/<session_id>
DeleteChatSession ==
    /\ \E session_id \in SessionIds :
         IF session_id \in DOMAIN chat_sessions
         THEN /\ chat_sessions' =
                    [s \in (DOMAIN chat_sessions) \ {session_id} |-> chat_sessions[s]]
              /\ appended' = [appended EXCEPT ![session_id] = <<>>]
              /\ chat_response' = Response(200, TRUE)
         ELSE /\ chat_response' = Response(404, FALSE)
              /\ UNCHANGED <<chat_sessions, appended>>
    /\ UNCHANGED now
    /\ UNCHANGED notSession

\* lines 271-289: POST /clear-all
ClearAllSessions ==
    /\ chat_sessions' = [s \in {} |-> s]
    /\ appended' = [s \in SessionIds |-> <<>>]
    /\ chat_response' = Response(200, TRUE)
    /\ UNCHANGED now
    /\ UNCHANGED notSession

SessionNext == SendMessage \/ DeleteChatSession \/ ClearAllSessions

(***************************************************************************)
(* QdrantService.__init__ of several instances against one backing store.  *)
(* Each remote call of a constructor is a step of its own, so the check of   *)
(* one instance can fall between the check and the creation of another.     *)
(***************************************************************************)
AdapterIds == 1..MaxAdapters

\* lines 24-27: an instance before its constructor has run
NewAdapter == [pc |-> "new", client |-> "unconstructed", seen |-> "-", outcome |-> "-"]

\* a faulty variant of ClientAfterEnsureError: the failure reaches __init__,
\* whose handler drops the client
ClientDroppedOnError(c) == "none"

\* lines 64-65: _ensure_collection_exists logs its failure and returns, so
\* __init__ keeps the client it constructed
ClientAfterEnsureError(c) == c

\* lines 29-35 and 39-42: the client is constructed, or the instance is degraded
AdapterConnect ==
    /\ \E a \in AdapterIds :
         /\ adapters[a].pc = "new"
         /\ \E available \in BOOLEAN, raises \in BOOLEAN :
                adapters' = [adapters EXCEPT ![a] =
                    IF ~available \/ raises
                    THEN [@ EXCEPT !.pc = "done", !.client = "none"]
                    ELSE [@ EXCEPT !.pc = "check", !.client = "connected"]]
    /\ UNCHANGED <<created, searchVars, ragVars>>
    /\ UNCHANGED <<chunkerVars, embedVars, sourcesVars, promptVars, sessionVars,
                   uploadVars, flightVars>>

\* lines 48-51 and 61-62: the check
AdapterGetCollections ==
    /\ \E a \in AdapterIds :
         /\ adapters[a].pc = "check"
         /\ adapters' = [adapters EXCEPT ![a] =
                IF ~store_up
                THEN [@ EXCEPT !.pc = "done", !.outcome = "error",
                               !.client = ClientAfterEnsureError(@)]
                ELSE IF coll_exists
                THEN [@ EXCEPT !.pc = "done", !.seen = "present", !.outcome = "exists"]
                ELSE [@ EXCEPT !.pc = "create", !.seen = "absent"]]
    /\ UNCHANGED <<created, searchVars, ragVars>>
    /\ UNCHANGED <<chunkerVars, embedVars, sourcesVars, promptVars, sessionVars,
                   uploadVars, flightVars>>

\* lines 52-60: the creation.  The store creates a collection it does not
\* hold, and refuses or ignores the request for one it holds.
AdapterCreateCollection ==
    /\ \E a \in AdapterIds :
         /\ adapters[a].pc = "create"
         /\ IF ~store_up
            THEN /\ adapters' = [adapters EXCEPT ![a] =
                        [@ EXCEPT !.pc = "done", !.outcome = "error",
                                  !.client = ClientAfterEnsureError(@)]]
                 /\ UNCHANGED <<coll_exists, created, points>>
            ELSE IF coll_exists
            THEN /\ \E refused \in BOOLEAN :
                        adapters' = [adapters EXCEPT ![a] =
                            IF refused
                            THEN [@ EXCEPT !.pc = "done", !.outcome = "conflict",
                                           !.client = ClientAfterEnsureError(@)]
                            ELSE [@ EXCEPT !.pc = "done", !.outcome = "ignored"]]
                 /\ UNCHANGED <<coll_exists, created, points>>
            ELSE /\ adapters' = [adapters EXCEPT ![a] =
                        [@ EXCEPT !.pc = "done", !.outcome = "created"]]
                 /\ coll_exists' = TRUE
                 /\ created' = created + 1
                 /\ points' = {}
    /\ UNCHANGED <<client, srch_args, srch_scores, srch_result, store_up, rag_op,
                   rag_result, rag_calls, ingested, deleted, store_at_init>>
    /\ UNCHANGED <<chunkerVars, embedVars, sourcesVars, promptVars, sessionVars,
                   uploadVars, flightVars>>

EnsureNext ==
    AdapterConnect \/ AdapterGetCollections \/ AdapterCreateCollection \/ StoreFlips

(***************************************************************************)
(* api/documents.py: upload_document, over the files of the upload folder.  *)
(* A file is named by the number of the save that wrote it: the uuid4 part   *)
(* of its name is not drawn twice.                                          *)
(***************************************************************************)
\* the requests of POST /upload: without a file, with an empty filename, with
\* a file validate_file refuses, with one it accepts
UploadKinds == {"no file", "no filename", "invalid", "valid"}

\* document_processor.py lines 283-286: the path of the k-th file saved
FilePath(k) == <<"report_", k, ".txt">>
\* no path: the request saved no file
NoFile == <<>>

\* the response of an upload request, with the path of the file the request
\* saved, whether the text was extracted, and whether os.remove raised
UploadResponse(status, success, file_path, extracted, remove_raised) ==
    [status |-> status, success |-> success, file_path |-> file_path,
     extracted |-> extracted, remove_raised |-> remove_raised]

\* a faulty variant of DeleteFile: the file is left where it is
DeleteFileSkipped(files, file_path, raises) == files

\* document_processor.py lines 298-308: delete_file removes the file if it
\* is there; when os.remove raises, the error is logged and the file stays
DeleteFile(files, file_path, raises) ==
    IF file_path \in files /\ ~raises
    THEN files \ {file_path}
    ELSE files

\* lines 24-99: POST /upload
UploadDocument ==
    /\ saved < MaxUploads
    /\ FreshDocIds # {}
    /\ \E kind \in UploadKinds, save_raises \in BOOLEAN, left \in BOOLEAN :
         IF kind # "valid"
         THEN /\ upload_response' = UploadResponse(400, FALSE, NoFile, FALSE, FALSE)
              /\ rag_result' = NoResult
              /\ rag_calls' = <<>>
              /\ UNCHANGED <<temp_files, saved, points, ingested>>
         ELSE IF save_raises
         THEN \* save_uploaded_file re-raises: the handler's own except answers;
              \* the file may have been created before the write failed
              /\ upload_response' = UploadResponse(500, FALSE, NoFile, FALSE, FALSE)
              /\ temp_files' = IF left THEN temp_files \cup {FilePath(saved + 1)} ELSE temp_files
              /\ saved' = saved + 1
              /\ rag_result' = NoResult
              /\ rag_calls' = <<>>
              /\ UNCHANGED <<points, ingested>>
         ELSE LET file_path == FilePath(saved + 1)
                  on_disk == temp_files \cup {file_path}
              IN  /\ saved' = saved + 1
                  /\ \E extracted \in BOOLEAN, remove_raises \in BOOLEAN :
                       /\ temp_files' = DeleteFile(on_disk, file_path, remove_raises)
                       /\ IF ~extracted
                          THEN /\ upload_response' =
                                      UploadResponse(400, FALSE, file_path, FALSE,
                                                     remove_raises)
                               /\ rag_result' = NoResult
                               /\ rag_calls' = <<>>
                               /\ UNCHANGED <<points, ingested>>
                          ELSE \E n \in 1..MaxChunks, d \in FreshDocIds :
                                 \E emb \in EmbedOutcomes(
                                               [i \in 1..n |-> TextChunks(n)[i].text]),
                                    order \in IdOrders(n) :
                                   \E out \in {ProcessAndStore(
                                                   TextChunks(n),
                                                   [document_id |-> d,
                                                    filename |-> UploadedFileName],
                                                   emb, order)} :
                                       /\ upload_response' =
                                              UploadResponse(
                                                  IF out.result.success THEN 200 ELSE 500,
                                                  out.result.success, file_path, TRUE,
                                                  remove_raises)
                                       /\ rag_result' = out.result
                                       /\ rag_calls' = out.calls
                                       /\ points' = out.points
                                       /\ ingested' = IF out.result.success
                                                      THEN [ingested EXCEPT ![d] = n]
                                                      ELSE ingested
    /\ rag_op' = [name |-> "upload_document"]
    /\ UNCHANGED <<client, store_up, coll_exists, deleted, store_at_init>>
    /\ UNCHANGED <<chunkerVars, embedVars, srch_args, srch_scores, srch_result,
                   sourcesVars, promptVars, sessionVars, ensureVars, flightVars>>

UploadNext == UploadDocument \/ StoreFlips

(***************************************************************************)
(* api/chat.py with several requests in flight.  A send_message handler     *)
(* runs up to its await, is suspended while the model call is out, and      *)
(* runs to its return when the call is answered; other handlers run in      *)
(* between.  The local variable `session` of a handler is a reference to a  *)
(* session dict, and chat_sessions holds references too, so the dicts are   *)
(* kept by identity in session_objs.                                        *)
(***************************************************************************)
RequestIds == 1..MaxRequests

\* a request that has not arrived
NewHandler ==
    [pc |-> "idle", session_id |-> "-", session |-> 0, use_rag |-> FALSE,
     system_prompt |-> <<>>, user_message |-> NoResult,
     assistant_message |-> NoResult, status |-> 0]

\* session_objs with the dict of identity ref holding these messages; a
\* dict that is not there yet is created (lines 45-48)
WithMessages(objs, ref, messages) ==
    [o \in 1..(IF ref > Len(objs) THEN ref ELSE Len(objs)) |->
        IF o = ref
        THEN [messages |-> messages,
              created_at |-> IF o <= Len(objs) THEN objs[o].created_at ELSE now]
        ELSE objs[o]]

\* lines 26-61: POST /message up to the await of the model call
SendMessageUntilAwait ==
    /\ \E r \in RequestIds, data \in MessageBodies :
         /\ handlers[r].pc = "idle"
         /\ IF "message" \notin DOMAIN data
            THEN /\ handlers' = [handlers EXCEPT ![r] =
                        [@ EXCEPT !.pc = "returned", !.status = 400]]
                 /\ UNCHANGED <<session_objs, session_refs, now>>
            ELSE LET known == data.session_id \in DOMAIN session_refs
                     ref == IF known
                            THEN session_refs[data.session_id]
                            ELSE Len(session_objs) + 1
                     before == IF known THEN session_objs[ref].messages ELSE <<>>
                     user_message == UserMessage(data.message, now + 1)
                 IN  /\ session_refs' =
                            [s \in (DOMAIN session_refs) \cup {data.session_id} |->
                                IF s = data.session_id THEN ref ELSE session_refs[s]]
                     /\ session_objs' =
                            WithMessages(session_objs, ref, Append(before, user_message))
                     /\ now' = now + 1
                     /\ handlers' = [handlers EXCEPT ![r] =
                            [@ EXCEPT !.pc = "awaiting",
                                      !.session_id = data.session_id,
                                      !.session = ref,
                                      !.use_rag = data.use_rag,
                                      !.system_prompt = data.system_prompt,
                                      !.user_message = user_message]]
    /\ UNCHANGED <<chat_sessions, chat_response, appended>>
    /\ UNCHANGED <<chunkerVars, embedVars, searchVars, sourcesVars, promptVars,
                   ragVars, ensureVars, uploadVars>>

\* lines 61-107: the model call is answered and the handler runs to its return
SendMessageAfterAwait ==
    /\ \E r \in RequestIds :
         /\ handlers[r].pc = "awaiting"
         /\ LET h == handlers[r]
                \* line 50: the reference taken before the await
                ref == h.session
                before == session_objs[ref].messages
            IN  \E response_result \in
                      ResponseResults(before, h.use_rag, h.system_prompt) :
                  IF ~response_result.success
                  THEN /\ handlers' = [handlers EXCEPT ![r] =
                              [@ EXCEPT !.pc = "returned", !.status = 500]]
                       /\ UNCHANGED <<session_objs, session_refs, now>>
                  ELSE LET assistant_message ==
                               AssistantMessage(response_result, now + 1)
                       IN  /\ session_objs' =
                                  WithMessages(session_objs, ref,
                                      LimitHistory(Append(before, assistant_message)))
                           /\ UNCHANGED session_refs
                           /\ now' = now + 1
                           /\ handlers' = [handlers EXCEPT ![r] =
                                  [@ EXCEPT !.pc = "returned", !.status = 200,
                                            !.assistant_message = assistant_message]]
    /\ UNCHANGED <<chat_sessions, chat_response, appended>>
    /\ UNCHANGED <<chunkerVars, embedVars, searchVars, sourcesVars, promptVars,
                   ragVars, ensureVars, uploadVars>>

\* lines 177-198: DELETE /session/<session_id>, between the steps of the
\* handlers in flight.  The dict stays with the handlers that hold it.
DeleteChatSessionInFlight ==
    /\ \E session_id \in SessionIds :
         IF session_id \in DOMAIN session_refs
         THEN session_refs' =
                  [s \in (DOMAIN session_refs) \ {session_id} |-> session_refs[s]]
         ELSE \* 404
              UNCHANGED session_refs
    /\ UNCHANGED <<session_objs, handlers>>
    /\ UNCHANGED sessionVars
    /\ UNCHANGED <<chunkerVars, embedVars, searchVars, sourcesVars, promptVars,
                   ragVars, ensureVars, uploadVars>>

\* lines 271-289: POST /clear-all, between the steps of the handlers in
\* flight: chat_sessions is bound to a new, empty dict
ClearAllSessionsInFlight ==
    /\ session_refs' = [s \in {} |-> s]
    /\ UNCHANGED <<session_objs, handlers>>
    /\ UNCHANGED sessionVars
    /\ UNCHANGED <<chunkerVars, embedVars, searchVars, sourcesVars, promptVars,
                   ragVars, ensureVars, uploadVars>>

FlightNext ==
    \/ SendMessageUntilAwait
    \/ SendMessageAfterAwait
    \/ DeleteChatSessionInFlight
    \/ ClearAllSessionsInFlight

(***************************************************************************)
(* Specifications.                                                         *)
(***************************************************************************)
\* The initial states: the component `run` starts on every input within the
\* bounds, the other components are idle.
InitOf(run) ==
    /\ text \in (IF run = "chunker"
                THEN TextsUpTo(MaxTextLen) \cup IndentedTexts
                ELSE {<<>>})
    /\ chunk_size \in (IF run = "chunker" THEN 1..MaxChunkSize ELSE {1})
    /\ overlap \in (IF run = "chunker" THEN 0..MaxOverlap ELSE {0})
    /\ paragraphs = <<>>
    /\ para_i = 1
    /\ current_chunk = <<>>
    /\ chunk_index = 0
    /\ chunks = <<>>
    /\ own_len = <<>>
    /\ seed_len = 0
    /\ split_pc = (IF run = "chunker" THEN "start" ELSE "idle")
    /\ emb_texts \in (IF run = "embed" THEN SeqsUpTo(EmbedInputs, MaxTexts) ELSE {<<>>})
    /\ all_embeddings = <<>>
    /\ emb_calls = <<>>
    /\ emb_result = NoResult
    /\ emb_pc = (IF run = "embed" THEN "loop" ELSE "idle")
    /\ client \in (IF run \in {"search", "query", "readers", "upload"}
                  THEN {"connected", "none"}
                  ELSE IF run = "store" THEN {"unconstructed"}
                  ELSE {"none"})
    /\ points \in (IF run = "search" THEN StoreContents
                  ELSE IF run = "query" THEN QueryStores
                  ELSE IF run \in {"readers", "ensure"} THEN UploadedStores
                  ELSE {{}})
    /\ srch_args = NoResult
    /\ srch_scores = <<>>
    /\ srch_result = NoResult
    /\ src_chunks \in (IF run = "sources" THEN SeqsUpTo(SourceHits, MaxSourceHits) ELSE {<<>>})
    /\ sources = <<>>
    /\ src_pc = (IF run = "sources" THEN "start" ELSE "idle")
    /\ ctx_chunks \in (IF run = "prompt" THEN SeqsUpTo(ContextHits, MaxContextHits) ELSE {<<>>})
    /\ base_prompt \in (IF run = "prompt" THEN BasePrompts ELSE {<<>>})
    /\ query \in (IF run = "prompt" THEN Queries ELSE {<<>>})
    /\ context_text = <<>>
    /\ enhanced_prompt = <<>>
    /\ ctx_pc = (IF run = "prompt" THEN "start" ELSE "idle")
    /\ store_up \in (IF run \in {"store", "query", "readers", "ensure", "upload"}
                    THEN BOOLEAN
                    ELSE {TRUE})
    /\ coll_exists \in (IF run = "store" \/ (run = "ensure" /\ points = {})
                       THEN BOOLEAN
                       ELSE {TRUE})
    /\ rag_op = [name |-> "-"]
    /\ rag_result = NoResult
    /\ rag_calls = <<>>
    /\ ingested = [d \in DocIds |->
                       Cardinality({pt \in points : /\ run = "readers"
                                                    /\ pt.payload.document_id = d})]
    /\ deleted = {}
    /\ store_at_init = "-"
    /\ chat_sessions = [s \in {} |-> s]
    /\ now = 0
    /\ chat_response = NoResult
    /\ appended = [s \in SessionIds |-> <<>>]
    /\ adapters = [a \in AdapterIds |-> NewAdapter]
    /\ created = 0
    /\ temp_files = {}
    /\ saved = 0
    /\ upload_response = NoResult
    /\ session_objs = <<>>
    /\ session_refs = [s \in {} |-> s]
    /\ handlers = [r \in RequestIds |-> NewHandler]

\* MaxRequests POST /message requests interleaved at their await with each
\* other and with the requests that delete sessions
SpecFlight == InitOf("flight") /\ [][FlightNext]_vars

\* upload requests one after the other, each on any path of the handler,
\* while the store goes down and comes back
SpecUpload == InitOf("upload") /\ [][UploadNext]_vars

\* constructors of MaxAdapters instances interleaved at their remote calls,
\* against a store that is up or down, with or without the collection
SpecEnsure == InitOf("ensure") /\ [][EnsureNext]_vars

\* the chunker on every text, chunk_size and overlap within the bounds
SpecChunker == InitOf("chunker") /\ [][ChunkerNext]_vars

\* generate_embeddings on every list of texts within the bounds, against a
\* provider that may fail at any call
SpecEmbed == InitOf("embed") /\ [][EmbedNext]_vars

\* one search_similar call, from each of its callers, on every collection
\* within the bounds, with the store connected or the adapter degraded
SpecSearch == InitOf("search") /\ [][SearchNext]_vars

\* _extract_sources_info on every list of hits within the bounds
SpecSources == InitOf("sources") /\ [][SourcesNext]_vars

\* the adapter constructed against a store that is up or down, with or
\* without the collection, and then any sequence of uploads, chunk fetches,
\* deletions and health requests while the store goes down and comes back
SpecStore == InitOf("store") /\ [][StoreNext]_vars

\* one call of chat_with_context or of query_documents, on every collection
\* within the bounds, with each service answering or failing
SpecQuery == InitOf("query") /\ [][QueryNext]_vars

\* after the uploads of up to two small documents: one query or chat, and
\* any sequence of chunk fetches, summaries and deletions
SpecReaders == InitOf("readers") /\ [][ReadersNext]_vars

\* any sequence of messages, answered or failed, of session deletions and of
\* clear-all requests, while the clock stays within the bound
SpecSession == InitOf("session") /\ [][SessionNext]_vars

\* the context builder and then the prompt builder on every list of hits,
\* base prompt and query within the bounds
SpecPrompt == InitOf("prompt") /\ [][PromptNext]_vars

(***************************************************************************)
(* Properties of the chunker.                                              *)
(***************************************************************************)
\* the paragraphs the loop keeps: split on "\n\n", stripped, blank ones dropped
RECURSIVE NonBlank(_)
NonBlank(ps) ==
    IF ps = <<>>
    THEN <<>>
    ELSE (IF Strip(Head(ps)) = <<>> THEN <<>> ELSE <<Strip(Head(ps))>>)
         \o NonBlank(Tail(ps))

InputParagraphs == NonBlank(SplitParagraphs(text))

RECURSIVE SumLen(_)
SumLen(ps) == IF ps = <<>> THEN 0 ELSE Len(Head(ps)) + SumLen(Tail(ps))

\* chunk i without its overlap-seeded prefix
OwnPart(i) == LastChars(chunks[i].text, own_len[i])

\* the paragraphs of chunks i..n, overlap-seeded prefixes ignored
RECURSIVE OwnParagraphsFrom(_)
OwnParagraphsFrom(i) ==
    IF i > Len(chunks)
    THEN <<>>
    ELSE (IF own_len[i] = 0 THEN <<>> ELSE SplitParagraphs(OwnPart(i)))
         \o OwnParagraphsFrom(i + 1)

\* C1 (as claimed): every emitted chunk has character_count <= chunk_size,
\* except a document emitted whole as its single chunk.
C1_CharacterCountWithinChunkSize ==
    \A i \in 1..Len(chunks) :
        \/ chunks[i].character_count <= chunk_size
        \/ /\ split_pc = "done"
           /\ Len(chunks) = 1
           /\ chunks[i].text = Strip(text)

\* C2: read in chunk_index order with the overlap-seeded prefixes ignored, the
\* chunks hold every non-blank paragraph of the input exactly once, in order.
C2_ParagraphsPreserved ==
    split_pc = "done" =>
        /\ Len(own_len) = Len(chunks)
        /\ \A i \in 1..Len(chunks) :
               /\ own_len[i] <= Len(chunks[i].text)
               /\ \A j \in 1..(i - 1) : chunks[j].chunk_index < chunks[i].chunk_index
        /\ OwnParagraphsFrom(1) = InputParagraphs

\* C2 witness: three paragraphs came out in two chunks, the second with an
\* overlap-seeded prefix
C2_Witness ==
    /\ split_pc = "done"
    /\ Len(InputParagraphs) >= 3
    /\ Len(chunks) >= 2
    /\ \E i \in 1..Len(chunks) : own_len[i] < Len(chunks[i].text)

\* C3: the chunk_index values are exactly 0..n-1 in emission order, and there
\* is no chunk exactly when the input is empty or whitespace-only.
C3_ChunkIndexContiguous ==
    split_pc = "done" =>
        /\ \A i \in 1..Len(chunks) : chunks[i].chunk_index = i - 1
        /\ (Len(chunks) = 0) <=> (Strip(text) = <<>>)

\* C3 witness: an input that was split into three chunks
C3_Witness == split_pc = "done" /\ Len(chunks) >= 3

\* C4 (as claimed): two or more paragraphs, each shorter than chunk_size, of
\* total length above chunk_size give at least 2 chunks, each of at most
\* chunk_size characters once its overlap-seeded characters are left out.
C4_ShortParagraphsSplit ==
    ( /\ split_pc = "done"
      /\ Len(InputParagraphs) >= 2
      /\ \A k \in 1..Len(InputParagraphs) : Len(InputParagraphs[k]) < chunk_size
      /\ SumLen(InputParagraphs) > chunk_size )
    => /\ Len(chunks) >= 2
       /\ \A i \in 1..Len(chunks) : own_len[i] <= chunk_size

\* C5: a non-blank input with no "\n\n" in it gives exactly one chunk, with
\* chunk_index 0 and the whole trimmed input as its text.
C5_SingleParagraphWhole ==
    (split_pc = "done" /\ Strip(text) # <<>> /\ FirstSep(text) = 0) =>
        chunks = <<[text |-> Strip(text),
                    chunk_index |-> 0,
                    character_count |-> Len(Strip(text))]>>

\* C5 witness: a single paragraph longer than chunk_size came out whole
C5_Witness ==
    /\ split_pc = "done"
    /\ FirstSep(text) = 0
    /\ Len(Strip(text)) > chunk_size
    /\ Len(Strip(text)) < Len(text)
    /\ Len(chunks) = 1

(***************************************************************************)
(* Properties of generate_embeddings.                                      *)
(***************************************************************************)
\* provider call k failed: it raised, or answered with an error status
CallFailed(k) ==
    \/ "raised" \in DOMAIN emb_calls[k]
    \/ emb_calls[k].response.status_code # HTTP_OK

\* C6: when the provider call for one text fails, the operation returns
\* success = FALSE with no embeddings list, and no provider call is issued for
\* the texts after the failing one.
C6_EmbeddingsFailFast ==
    \A k \in 1..Len(emb_calls) :
        CallFailed(k) =>
            /\ k = Len(emb_calls)
            /\ emb_pc = "done"
            /\ emb_result.success = FALSE
            /\ "embeddings" \notin DOMAIN emb_result

\* C6 witness: the second of three calls failed after the first succeeded
C6_Witness ==
    /\ Len(emb_texts) = 3
    /\ Len(emb_calls) = 2
    /\ CallFailed(2)
    /\ Len(all_embeddings) = 1
    /\ emb_pc = "done"

\* C7: on success the embeddings list has one vector per input text, and the
\* i-th vector is what the provider answered for the i-th text, one call per
\* text.
C7_EmbeddingsAligned ==
    (emb_pc = "done" /\ emb_result.success) =>
        /\ Len(emb_result.embeddings) = Len(emb_texts)
        /\ emb_result.count = Len(emb_texts)
        /\ Len(emb_calls) = Len(emb_texts)
        /\ \A i \in 1..Len(emb_texts) :
               /\ emb_calls[i].prompt = emb_texts[i]
               /\ emb_result.embeddings[i] = ResponseEmbedding(emb_calls[i].response)

\* C7 witness: three texts embedded, with different vectors for the same text
C7_Witness ==
    /\ emb_pc = "done"
    /\ emb_result.success
    /\ Len(emb_texts) = 3
    /\ emb_texts[1] = emb_texts[3]
    /\ emb_result.embeddings[1] # emb_result.embeddings[3]

(***************************************************************************)
(* Properties of search_similar.                                           *)
(***************************************************************************)
\* C8: every hit search_similar returns has score >= the threshold its caller
\* asked for, the hits are in descending score order, and there are at most
\* `limit` of them.
C8_HitsAboveThresholdRanked ==
    (srch_result # NoResult /\ srch_result.success) =>
        LET hits == srch_result.results
        IN  /\ Len(hits) <= srch_args.limit
            /\ \A i \in 1..Len(hits) : hits[i].score >= srch_args.score_threshold
            /\ \A i, j \in 1..Len(hits) : i < j => hits[i].score >= hits[j].score

\* C8 witness: query_documents got two hits of different scores while a point
\* below the threshold and a third point above it were left out
C8_Witness ==
    /\ srch_result # NoResult
    /\ srch_result.success
    /\ srch_args.caller = "query_documents"
    /\ srch_args.limit = 2
    /\ Len(srch_result.results) = 2
    /\ srch_result.results[1].score > srch_result.results[2].score
    /\ \E pt \in points : srch_scores[pt.id] < srch_args.score_threshold

(***************************************************************************)
(* Properties of the source attributions, the context and the prompt.      *)
(***************************************************************************)
\* the document ids of the hits, each once, in the order first seen
RECURSIVE FirstSeen(_, _)
FirstSeen(hits, seen) ==
    IF hits = <<>>
    THEN <<>>
    ELSE LET d == Head(hits).metadata.document_id
         IN  IF d = NoDoc \/ d \in seen
             THEN FirstSeen(Tail(hits), seen)
             ELSE <<d>> \o FirstSeen(Tail(hits), seen \cup {d})

HitsOf(d) == {i \in 1..Len(src_chunks) : src_chunks[i].metadata.document_id = d}

\* C9: _extract_sources_info returns one Source Attribution per distinct
\* document_id among the hits, in first-seen order; its relevance_score is the
\* maximum score of the document's hits and its chunk_count their number.
C9_SourcesPerDocument ==
    src_pc = "done" =>
        LET docs == FirstSeen(src_chunks, {})
        IN  /\ Len(sources) = Len(docs)
            /\ \A k \in 1..Len(docs) :
                   /\ sources[k].document_id = docs[k]
                   /\ sources[k].chunk_count = Cardinality(HitsOf(docs[k]))
                   /\ \E i \in HitsOf(docs[k]) :
                          sources[k].relevance_score = src_chunks[i].score
                   /\ \A i \in HitsOf(docs[k]) :
                          sources[k].relevance_score >= src_chunks[i].score

\* C9 witness: two hits of one document, the second with the higher score,
\* around a hit of another document
C9_Witness ==
    /\ src_pc = "done"
    /\ Len(src_chunks) = 3
    /\ Len(sources) = 2
    /\ src_chunks[1].metadata.document_id = src_chunks[3].metadata.document_id
    /\ src_chunks[1].score < src_chunks[3].score
    /\ sources[1].chunk_count = 2

\* C10: the context built from no hits is the empty string, and the prompt
\* built from an empty context is the base prompt, unchanged.
C10_EmptyContextKeepsBasePrompt ==
    /\ (ctx_pc \in {"context", "prompt"} /\ ctx_chunks = <<>>) => context_text = <<>>
    /\ (ctx_pc = "prompt" /\ context_text = <<>>) => enhanced_prompt = base_prompt

\* C10 witness: no hits, a non-empty base prompt and query, the prompt built
C10_Witness ==
    /\ ctx_pc = "prompt"
    /\ ctx_chunks = <<>>
    /\ base_prompt # <<>>
    /\ query # <<>>
    /\ enhanced_prompt = base_prompt

(***************************************************************************)
(* Properties of the context builder.                                      *)
(***************************************************************************)
\* the first position at which sep occurs in s, 0 when it does not
FirstAt(s, sep) ==
    LET hits == {i \in 1..(Len(s) - Len(sep) + 1) : SubSeq(s, i, i + Len(sep) - 1) = sep}
    IN  IF hits = {} THEN 0 ELSE CHOOSE i \in hits : \A j \in hits : i <= j

\* the blocks of a context: the pieces between separators, none for ""
RECURSIVE BlocksOf(_)
BlocksOf(context) ==
    IF context = <<>>
    THEN <<>>
    ELSE LET i == FirstAt(context, BlockSeparator)
         IN  IF i = 0
             THEN <<context>>
             ELSE <<SubSeq(context, 1, i - 1)>>
                      \o BlocksOf(SubSeq(context, i + Len(BlockSeparator), Len(context)))

\* the hits whose text is not blank
HasText(hit) == \E k \in 1..Len(hit.text) : hit.text[k] \notin Whitespace
HitsWithText == SelectSeq(ctx_chunks, HasText)

\* the header of a block, up to the line feed that ends it
BlockHeader(block) == SubSeq(block, 1, FirstAt(block, <<LF>>))
BlockBody(block) == SubSeq(block, FirstAt(block, <<LF>>) + 1, Len(block))

\* C11 as stated: the context holds one block per hit.
C11_OneBlockPerHit ==
    ctx_pc \in {"context", "prompt"} => Len(BlocksOf(context_text)) = Len(ctx_chunks)

\* C11: the context holds one block per hit of non-blank text, in the order
\* of the hits, separated by the fixed separator; each block names the hit's
\* filename and the part number chunk_index + 1 and then carries the hit's
\* text without its surrounding whitespace.  A hit of blank text has no block.
C11_BlockPerHitWithText ==
    ctx_pc \in {"context", "prompt"} =>
        LET blocks == BlocksOf(context_text)
        IN  /\ Len(blocks) = Len(HitsWithText)
            /\ \A k \in 1..Len(blocks) :
                   LET hit == HitsWithText[k]
                   IN  /\ BlockHeader(blocks[k]) =
                             <<"[doc: ">> \o hit.metadata.filename \o <<", part ",
                               NumStr(hit.metadata.chunk_index + 1), "]", LF>>
                       /\ BlockBody(blocks[k]) = Strip(hit.text)

\* C11 witness: a hit of blank text between two hits of different documents
\* and parts, and a context of the two blocks
C11_Witness ==
    /\ ctx_pc = "context"
    /\ Len(ctx_chunks) = 3
    /\ HasText(ctx_chunks[1]) /\ ~HasText(ctx_chunks[2]) /\ HasText(ctx_chunks[3])
    /\ ctx_chunks[1].metadata.document_id # ctx_chunks[3].metadata.document_id
    /\ ctx_chunks[1].metadata.chunk_index = 1
    /\ ctx_chunks[3].metadata.chunk_index = 0
    /\ ctx_chunks[1].text # Strip(ctx_chunks[1].text)
    /\ Len(BlocksOf(context_text)) = 2

(***************************************************************************)
(* Properties of the vector store adapter and of the ingest pipeline.      *)
(***************************************************************************)
\* the points of a document in the collection
PointsOf(d) == {pt \in points : pt.payload.document_id = d}

\* C12: a chunk fetch that succeeds for a document that was ingested with
\* success (n chunks) and not deleted returns exactly n chunks, and the i-th
\* of them has chunk_index i - 1.
C12_ChunksRoundTrip ==
    (/\ rag_op.name = "get_document_chunks"
     /\ rag_result.success
     /\ ingested[rag_op.document_id] > 0
     /\ rag_op.document_id \notin deleted)
    => /\ rag_result.count = ingested[rag_op.document_id]
       /\ Len(rag_result.chunks) = ingested[rag_op.document_id]
       /\ \A i \in 1..Len(rag_result.chunks) : rag_result.chunks[i].chunk_index = i - 1

\* C13: once delete_document(d) has returned success the collection holds no
\* point of d, and a later get_document_chunks(d) that the store answers
\* returns success with no chunk.
C13_DeletedDocumentIsGone ==
    /\ \A d \in deleted : PointsOf(d) = {}
    /\ (/\ rag_op.name = "get_document_chunks"
        /\ rag_op.document_id \in deleted
        /\ rag_calls # <<>>
        /\ rag_calls[1].outcome = "ok")
       => /\ rag_result.success
          /\ rag_result.count = 0
          /\ rag_result.chunks = <<>>

\* C13 witness: a document of two chunks was ingested and deleted while the
\* other document stays, and its chunks are fetched
C13_Witness ==
    /\ rag_op.name = "get_document_chunks"
    /\ rag_op.document_id \in deleted
    /\ ingested[rag_op.document_id] = 2
    /\ rag_result.success
    /\ rag_result.count = 0
    /\ \E d \in DocIds : d # rag_op.document_id /\ PointsOf(d) # {}

\* the error of the adapter's operation: add_documents is called under
\* process_and_store_document, which prefixes its error
AdapterError ==
    IF rag_op.name = "process_and_store_document" THEN rag_result.error[2]
    ELSE rag_result.error
\* the adapter's operation was called
AdapterCalled ==
    \/ rag_op.name \in {"get_document_chunks", "delete_document", "get_collection_info"}
    \/ rag_op.name = "process_and_store_document" /\ rag_calls[1].outcome = "ok"

\* C18: when the store was unreachable while the adapter was constructed, the
\* adapter is degraded: every operation after that fails with the
\* store-unavailable error without a request to the store, and health_check
\* answers false.
C18_UnreachableStoreDegrades ==
    (store_at_init = "down") =>
        /\ client = "none"
        /\ AdapterCalled =>
               /\ ~rag_result.success
               /\ AdapterError = ClientUnavailable.error
        /\ (rag_op.name = "health_check") => ~rag_result.healthy
        /\ (rag_op.name # "QdrantService") =>
               \A i \in 1..Len(rag_calls) : rag_calls[i].service # "store"

\* C20: process_and_store_document calls the embedding service once and
\* then the upsert at most once.  When the embedding fails the upsert is not
\* called, the collection is left as it was and the failure returned names
\* the embedding failure with its error text; when the upsert fails the
\* failure returned names the storage failure with its error text.
C20_FirstFailureReported ==
    /\ [](rag_op.name = "process_and_store_document" =>
            /\ Len(rag_calls) \in 1..2
            /\ rag_calls[1].op = "generate_embeddings"
            /\ Len(rag_calls) = 2 => (rag_calls[1].outcome = "ok" /\ rag_calls[2].op = "upsert")
            /\ rag_calls[1].outcome # "ok" =>
                   /\ ~rag_result.success
                   /\ rag_result.error =
                          <<"Failed to generate embeddings: ", rag_calls[1].outcome>>
            /\ (Len(rag_calls) = 2 /\ rag_calls[2].outcome # "ok") =>
                   /\ ~rag_result.success
                   /\ rag_result.error =
                          <<"Failed to store in vector database: ", rag_calls[2].outcome>>)
    /\ [][(rag_op'.name = "process_and_store_document" /\ rag_calls'[1].outcome # "ok")
              => points' = points]_vars

\* C20 witness: with a document in the collection, the upload of another
\* one fails at the embedding, and the collection holds only the first
C20_Witness ==
    /\ rag_op.name = "process_and_store_document"
    /\ rag_calls[1].outcome \in EmbedErrors
    /\ ~rag_result.success
    /\ points # {}
    /\ PointsOf(rag_op.document_id) = {}

(***************************************************************************)
(* Claims about query_documents and chat_with_context.                     *)
(***************************************************************************)
\* the request was one of the two answering pipelines
Answered == rag_op.name \in {"chat_with_context", "query_documents"}
\* the request was a multi-turn chat
Chatted == rag_op.name = "chat_with_context"
\* the last remote call of the request
LastCall == rag_calls[Len(rag_calls)]

\* C14: whenever a remote sub-step of a pipeline failed, the pipeline returns
\* success = false with an error carrying that sub-step's error text.
C14_SubStepFailureIsReported ==
    Answered =>
        \A i \in 1..Len(rag_calls) :
            rag_calls[i].outcome # "ok" =>
                /\ ~rag_result.success
                /\ rag_result.error[2] = rag_calls[i].outcome

\* C15 as stated: with auto-retrieval disabled and the completion successful,
\* the result carries sources = [] and context_used = false.
C15_NoRetrievalNoContext ==
    (Chatted /\ ~rag_op.auto_retrieve /\ rag_result.success) =>
        /\ rag_result.sources = <<>>
        /\ rag_result.context_used = FALSE

\* C15 amended: with auto-retrieval disabled and the completion successful,
\* no retrieval call is made, the result has the keys of a result with
\* retrieval, sources = [], and context_used tells whether the caller
\* supplied a non-empty document_context.
C15_NoRetrievalReportsSuppliedContext ==
    (Chatted /\ ~rag_op.auto_retrieve /\ rag_result.success) =>
        /\ Len(rag_calls) = 1
        /\ DOMAIN rag_result =
               {"success", "response", "sources", "context_used", "model_used"}
        /\ rag_result.sources = <<>>
        /\ rag_result.context_used = (rag_op.document_context # <<>>)

\* a chat without retrieval, with a supplied context, has answered
C15_Witness ==
    /\ Chatted
    /\ ~rag_op.auto_retrieve
    /\ rag_op.document_context # <<>>
    /\ rag_result.success

\* the content of the most recent message whose role is user, "" if none
RECURSIVE LastUserContent(_)
LastUserContent(messages) ==
    IF messages = <<>> THEN <<>>
    ELSE IF messages[Len(messages)].role = "user"
    THEN messages[Len(messages)].content
    ELSE LastUserContent(SubSeq(messages, 1, Len(messages) - 1))

\* C16: the text embedded for retrieval is the content of the most recent
\* user message of the history, and the completion receives the full history.
C16_LatestUserMessageIsTheQuery ==
    Chatted =>
        /\ rag_calls[1].service = "embed" =>
               rag_calls[1].arg = <<LastUserContent(rag_op.messages)>>
        /\ LastCall.service = "chat"
        /\ LastCall.arg.messages = rag_op.messages

\* C17: when the search succeeded with zero hits, the completion is called
\* with the unmodified base prompt, and if it succeeds the request succeeds
\* with empty sources and, for chat, context_used = false.
C17_ZeroHitsIsNotAFailure ==
    (Answered /\ rag_op.hits = 0) =>
        /\ LastCall.service = "chat"
        /\ LastCall.arg.system_prompt = BasePromptOf(rag_op.system_prompt)
        /\ LastCall.outcome = "ok" =>
               /\ rag_result.success
               /\ rag_result.sources = <<>>
               /\ Chatted => rag_result.context_used = FALSE

\* a chat with a supplied context, on a collection that holds points, found
\* nothing above the threshold and answered
C17_Witness ==
    /\ Chatted
    /\ rag_op.hits = 0
    /\ rag_op.document_context # <<>>
    /\ points # {}
    /\ rag_result.success

(***************************************************************************)
(* Claims about the chat sessions.                                         *)
(***************************************************************************)
\* s is the last Len(s) elements of t
IsSuffix(s, t) ==
    /\ Len(s) <= Len(t)
    /\ s = SubSeq(t, Len(t) - Len(s) + 1, Len(t))

\* C19: once a request has returned, every session's message log holds at
\* most 20 messages and is the most recent suffix of the session's append
\* order.
C19_SessionLogCapped ==
    \A s \in DOMAIN chat_sessions :
        /\ Len(chat_sessions[s].messages) <= SessionCap
        /\ IsSuffix(chat_sessions[s].messages, appended[s])

(***************************************************************************)
(* Claims about the order of the remote calls.                             *)
(***************************************************************************)
\* the services in the order query_documents calls them
QueryStages == <<"embed", "store", "chat">>

\* C21: the remote calls of one query_documents request are a prefix of
\* embed, search, complete, each issued once; every call but the last
\* returned success, and a request that stopped before the completion
\* returns a failure.
C21_CallsInStageOrder ==
    (rag_op.name = "query_documents") =>
        /\ Len(rag_calls) \in 1..Len(QueryStages)
        /\ \A i \in 1..Len(rag_calls) : rag_calls[i].service = QueryStages[i]
        /\ \A i \in 1..(Len(rag_calls) - 1) : rag_calls[i].outcome = "ok"
        /\ Len(rag_calls) < Len(QueryStages) => ~rag_result.success

\* a query whose search failed: the embedding and the search were called,
\* the completion was not
C21_Witness ==
    /\ rag_op.name = "query_documents"
    /\ Len(rag_calls) = 2
    /\ rag_calls[2].outcome # "ok"
    /\ ~rag_result.success

(***************************************************************************)
(* Claims about the supplied document_context.                             *)
(***************************************************************************)
\* the retrieval of the chat ran, and it reported success
RetrievalRan == rag_calls[1].service = "embed"
RetrievalSucceeded == RetrievalRan /\ rag_calls[1].outcome = "ok"
\* the prompt handed to the completion
PromptSent == LastCall.arg.system_prompt
\* the prompt built on a context for the chat's latest message
PromptOn(context) ==
    BuildEnhancedSystemPrompt(BasePromptOf(rag_op.system_prompt), context,
                              LatestMessage(rag_op.messages))

\* C30: the supplied document_context is the context of the prompt when
\* retrieval did not run or reported failure; when retrieval ran and
\* reported success the supplied context is not in the prompt, and with zero
\* hits or a failed search the prompt is the base prompt.
C30_SuppliedContextIsTheFallback ==
    Chatted =>
        /\ ~RetrievalSucceeded => PromptSent = PromptOn(rag_op.document_context)
        /\ RetrievalSucceeded =>
               /\ \A k \in 1..Len(PromptSent) : PromptSent[k] # "supplied context"
               /\ rag_op.hits <= 0 => PromptSent = PromptOn(<<>>)

\* a chat with a supplied context whose embedding succeeded and whose
\* search failed
C30_Witness ==
    /\ Chatted
    /\ rag_op.document_context # <<>>
    /\ Len(rag_calls) = 3
    /\ rag_calls[1].outcome = "ok"
    /\ rag_calls[2].outcome # "ok"

(***************************************************************************)
(* Claims about the points an ingest stores.                               *)
(***************************************************************************)
\* the last operation was a successful ingest
Ingested == rag_op.name = "process_and_store_document" /\ rag_result.success

\* C24: after a successful ingest of n chunks the three counts of the result
\* are n, the collection holds n points of the document, one per
\* chunk_index 0..n-1, and the point of chunk_index i holds the text of
\* chunk i, the embedding of that text, and the ingest's document_id and
\* filename; the ingest adds exactly n points; add_documents with lists of
\* different lengths fails and stores nothing.
C24_PointsMatchChunks ==
    /\ [](Ingested =>
            LET n == rag_op.n
                stored == PointsOf(rag_op.document_id)
            IN  /\ rag_result.chunks_processed = n
                /\ rag_result.embeddings_generated = n
                /\ rag_result.points_stored = n
                /\ Cardinality(stored) = n
                /\ Cardinality({pt.payload.chunk_index : pt \in stored}) = n
                /\ \A pt \in stored :
                       /\ pt.payload.chunk_index \in 0..(n - 1)
                       /\ pt.payload.text =
                              TextChunks(n)[pt.payload.chunk_index + 1].text
                       /\ pt.vector = EmbeddingOf(pt.payload.text)
                       /\ pt.payload.filename = UploadedFileName)
    /\ [][/\ (Ingested' /\ ingested' # ingested) =>
                  Cardinality(points') = Cardinality(points) + rag_op'.n
          /\ rag_op'.name = "add_documents" =>
                  (~rag_result'.success /\ points' = points)]_vars

\* a two-chunk document was ingested into a collection that held another
C24_Witness ==
    /\ Ingested
    /\ rag_op.n = MaxChunks
    /\ Cardinality(points) > rag_op.n

\* C26: an ingest that succeeds draws a document_id no stored point carries
\* and point ids no stored point has, keeps every point that was stored, and
\* adds one point per chunk; after two successful ingests of the same file
\* the collection holds the points of both documents.
C26_ReingestKeepsBoth ==
    /\ []((\A d \in DocIds : ingested[d] > 0 /\ d \notin deleted) =>
            /\ \A d \in DocIds : Cardinality(PointsOf(d)) = ingested[d]
            /\ \A p, q \in points : p.id = q.id => p = q)
    /\ [][(Ingested' /\ ingested' # ingested) =>
              /\ points \subseteq points'
              /\ Cardinality(points') = Cardinality(points) + rag_op'.n
              /\ \A q \in points :
                     /\ q.payload.document_id # rag_op'.document_id
                     /\ \A p \in points' \ points : p.id # q.id]_vars

\* the same two-chunk file was ingested twice and nothing was deleted
C26_Witness ==
    /\ Ingested
    /\ \A d \in DocIds : ingested[d] = MaxChunks
    /\ deleted = {}
    /\ Cardinality(points) = MaxChunks + MaxChunks
    /\ \A pt \in points : pt.payload.filename = UploadedFileName

(***************************************************************************)
(* Claims about get_document_summary.                                      *)
(***************************************************************************)
\* the text of a document of n chunks, its chunks joined in chunk_index order
DocumentText(n) == FullText(TextChunks(n))

\* C23: a summary request that the store answers, for a document ingested
\* with n chunks and not deleted, issues one completion call whose message
\* is the instruction followed by the first 4000 characters of the
\* document's texts joined in chunk_index order; for a document without
\* chunks it fails without a completion call.
C23_SummaryOfDocumentText ==
    (rag_op.name = "get_document_summary" /\ rag_calls # <<>>
        /\ rag_calls[1].outcome = "ok") =>
        LET d == rag_op.document_id
        IN  IF PointsOf(d) = {}
            THEN /\ ~rag_result.success
                 /\ Len(rag_calls) = 1
            ELSE /\ Len(rag_calls) = 2
                 /\ rag_calls[2].service = "chat"
                 /\ rag_calls[2].arg.messages =
                        <<Message("user",
                                  <<"summarize: ">>
                                      \o Truncate(DocumentText(ingested[d]), SummaryBudget))>>

(***************************************************************************)
(* Claims about what the requests leave alone.                             *)
(***************************************************************************)
\* the operations that read the collection
ReadingOps ==
    {"query_documents", "chat_with_context", "get_document_chunks", "get_document_summary"}
\* the requests to the store that do not change it
ReadRequests == {"search", "scroll"}

\* C29: delete_document(d) removes no point of another document and adds
\* none; query_documents, chat_with_context, get_document_chunks and
\* get_document_summary leave the collection as it is and send the store
\* only search and scroll requests.
C29_OtherPointsUntouched ==
    [][/\ rag_op'.name = "delete_document" =>
              /\ points' \subseteq points
              /\ \A pt \in points :
                     pt.payload.document_id # rag_op'.document_id => pt \in points'
       /\ rag_op'.name \in ReadingOps =>
              /\ points' = points
              /\ \A k \in 1..Len(rag_calls') :
                     rag_calls'[k].service = "store" => rag_calls'[k].op \in ReadRequests]_vars

\* a document was deleted and the points of the other are still there
C29_Witness ==
    /\ rag_op.name = "delete_document"
    /\ rag_result.success
    /\ ingested[rag_op.document_id] > 0
    /\ PointsOf(rag_op.document_id) = {}
    /\ points # {}

(***************************************************************************)
(* Claims about the overlap seed of the chunker.                           *)
(***************************************************************************)
\* the step seals a chunk inside the loop
Seals == split_pc = "loop" /\ split_pc' = "loop" /\ Len(chunks') = Len(chunks) + 1
\* the text of the chunk the step seals, and the paragraph that triggered it
SealedText == chunks'[Len(chunks')].text
Trigger == Strip(paragraphs[para_i])

\* C27 as stated: the buffer after a seal is a seed followed by the
\* paragraph that triggered the seal (with or without the separator), where
\* the seed is a suffix of the sealed chunk's text of length at most overlap,
\* empty when overlap is 0 or that text is not longer than overlap.
C27_SeedIsSuffixOfChunkText ==
    [][Seals =>
          \E k \in 0..Min(overlap, Len(SealedText)) :
              LET seed == SubSeq(SealedText, Len(SealedText) - k + 1, Len(SealedText))
              IN  /\ (overlap = 0 \/ Len(SealedText) <= overlap) => k = 0
                  /\ \/ current_chunk' = seed \o Trigger
                     \/ current_chunk' = seed \o SEP \o Trigger]_vars

\* C27 amended: the chunk sealed is the buffer stripped; the buffer after the
\* seal is the paragraph alone when overlap is 0 or the buffer is not longer
\* than overlap, and otherwise the last overlap characters of the buffer,
\* the separator and the paragraph.
C27_SeedIsSuffixOfBuffer ==
    [][Seals =>
          /\ SealedText = Strip(current_chunk)
          /\ current_chunk' =
                 IF overlap = 0 \/ Len(current_chunk) <= overlap
                 THEN Trigger
                 ELSE SubSeq(current_chunk, Len(current_chunk) - overlap + 1,
                             Len(current_chunk))
                          \o SEP \o Trigger]_vars

\* a buffer was seeded under an overlap larger than chunk_size
C27_Witness ==
    /\ Len(chunks) >= 1
    /\ seed_len > 0
    /\ overlap > chunk_size

(***************************************************************************)
(* Claims about the construction of several adapters at once.              *)
(***************************************************************************)
\* the instances whose check saw the collection absent and whose creation
\* request the store answered
Racers ==
    {a \in AdapterIds : /\ adapters[a].pc = "done"
                        /\ adapters[a].seen = "absent"
                        /\ adapters[a].outcome # "error"}

\* C22: a collection that exists is left untouched by every step of every
\* constructor; the store never carries out more than one creation; when all
\* the instances saw the collection absent and the store answered their
\* creation requests, the collection exists and was created once; and an
\* instance whose client was constructed keeps it whatever the check and the
\* creation did.
C22_CreationIsIdempotent ==
    /\ [](/\ created <= 1
          /\ Racers = AdapterIds => (coll_exists /\ created = 1)
          /\ \A a \in AdapterIds :
                 adapters[a].pc \in {"check", "create"} \/ adapters[a].outcome # "-"
                     => adapters[a].client = "connected")
    /\ [][coll_exists => (coll_exists' /\ points' = points /\ created' = created)]_vars

\* two instances both saw the collection absent; the store created it for
\* one and refused the other
C22_Witness ==
    /\ Racers = AdapterIds
    /\ \E a, b \in AdapterIds : /\ adapters[a].outcome = "created"
                                 /\ adapters[b].outcome = "conflict"

(***************************************************************************)
(* Claims about the temporary file of an upload.                            *)
(***************************************************************************)
\* the last request saved its file and went on to extraction
SavedFile == upload_response # NoResult /\ upload_response.file_path # NoFile

Logged(refs, objs, h) ==
    /\ h.session_id \in DOMAIN refs
    /\ LET log == objs[refs[h.session_id]].messages
       IN  \/ Len(log) >= SessionCap
           \/ /\ \E i \in 1..Len(log) : log[i] = h.user_message
              /\ \E i \in 1..Len(log) : log[i] = h.assistant_message

\* C28: when a send_message request returns success, its user message and
\* its assistant reply are in the log of its session reachable through
\* chat_sessions (or that log is at its cap), whatever ran during its await.
C28_NoMessageLost ==
    [][\A r \in RequestIds :
          (/\ handlers[r].pc = "awaiting"
           /\ handlers'[r].pc = "returned"
           /\ handlers'[r].status = 200)
              => Logged(session_refs', session_objs', handlers'[r])]_vars

=============================================================================
